---- MODULE Spec2Model ----
(***************************************************************************)
(* Route-planning engine of logistics-rush (src/routing.py,                *)
(* src/routing_optimization.py) as a state machine: one planning call      *)
(* solve_tsp(start_location, locations) over the session state             *)
(* (closed_roads, packages).                                               *)
(*                                                                         *)
(* Naming.  routing.py, game_engine.py and feature_packages.py name the    *)
(* locations Warehouse / Distribution Center / Shop / Home / Central Hub;  *)
(* the distance table of src/config.py still carries the older names       *)
(* Factory / DHL Hub / Shop / Residence / Central Hub of the same five     *)
(* nodes (config.py:69-70 states the same two ordering rules for them).    *)
(* The model uses the planner's names and reads config.DISTANCES through   *)
(* that renaming.                                                          *)
(*                                                                         *)
(* Numbers.  config.DISTANCES holds 2.0, 3.0 and 4.5; every distance of    *)
(* the model is in HALF units (4, 6, 9), and the planner's thresholds are  *)
(* doubled with them (50 -> 100, 100 -> 200, 300 -> 600).                  *)
(***************************************************************************)
EXTENDS Integers, Sequences, FiniteSets, TLC

\* ------------------------------------------------------------------ bounds
\* at most this many roads are closed in an explored planning call (besides
\* the closures that cut one location off)
MaxClosed == 2
\* at most this many packages follow the two fixed ones in a package list
MaxExtraPackages == 1

\* ----------------------------------------------------------- configuration
W == "Warehouse"
DC == "Distribution Center"
S == "Shop"
H == "Home"
CH == "Central Hub"

\* config.LOCATIONS, in dictionary order
LOCATIONS == <<W, DC, S, H, CH>>

Locs == {LOCATIONS[i] : i \in 1..Len(LOCATIONS)}

\* config.ROAD_SEGMENTS, in list order
ROAD_SEGMENTS ==
  << <<W, DC>>, <<W, S>>, <<W, H>>, <<W, CH>>, <<DC, S>>,
     <<DC, H>>, <<DC, CH>>, <<S, H>>, <<S, CH>>, <<H, CH>> >>

Roads == {ROAD_SEGMENTS[i] : i \in 1..Len(ROAD_SEGMENTS)}

\* float('inf')
Inf == 1000000

\* config.DISTANCES in half units; Inf for a pair that is not a key
DISTANCES(a, b) ==
  CASE <<a, b>> = <<W, DC>> -> 6
    [] <<a, b>> = <<W, S>> -> 9
    [] <<a, b>> = <<W, H>> -> 4
    [] <<a, b>> = <<W, CH>> -> 4
    [] <<a, b>> = <<DC, S>> -> 4
    [] <<a, b>> = <<DC, H>> -> 9
    [] <<a, b>> = <<DC, CH>> -> 4
    [] <<a, b>> = <<S, H>> -> 6
    [] <<a, b>> = <<S, CH>> -> 4
    [] <<a, b>> = <<H, CH>> -> 4
    [] OTHER -> Inf

\* the planner's distance thresholds and default segment length, half units
UnrealisticBelow == 100
MinReasonable == 200
DefaultSegment == 600

\* ------------------------------------------------------------------- state
VARIABLES
  start_location,   \* argument of solve_tsp
  locations,        \* argument of solve_tsp: the locations to visit, a sequence
  closed_roads,     \* st.session_state.closed_roads
  packages,         \* st.session_state.packages
  tie,              \* which of several equally short paths networkx returns
  ordering,         \* argument `route` of create_action_route
  pc,               \* "call" before the operation runs, "returned" / "sequenced" after
  action_route,     \* returned action route
  route_path,       \* returned path
  total_distance,   \* returned distance (half units)
  branch,           \* which part of solve_tsp produced the result
  segment,          \* arguments <<from_loc, to_loc>> of find_detour / calculate_segment_path
  result,           \* value returned by a helper that is called on its own
  game_active,      \* st.session_state.game_active
  current_route,    \* st.session_state.current_route: the locations checked in at
  current_package,  \* st.session_state.current_package: the id of the package, 0 for None
  delivered_packages, \* st.session_state.delivered_packages: ids in order of delivery
  total_packages    \* st.session_state.total_packages

\* the session keys the game loop works on
gameVars == <<game_active, current_route, current_package, delivered_packages,
              total_packages>>

vars == <<start_location, locations, closed_roads, packages, tie, ordering, pc,
          action_route, route_path, total_distance, branch, segment, result, gameVars>>

\* ------------------------------------------------------------ sequence aids
Range(s) == {s[i] : i \in 1..Len(s)}

\* list.index(x): position of the first occurrence
IndexOf(s, x) == CHOOSE i \in 1..Len(s) : s[i] = x /\ \A j \in 1..(i - 1) : s[j] # x

Last(s) == s[Len(s)]

RECURSIVE Reverse(_)
Reverse(s) == IF s = <<>> THEN <<>> ELSE Append(Reverse(Tail(s)), Head(s))

\* list.insert(i, x) with i a Python index (0-based)
InsertAt(s, i, x) == SubSeq(s, 1, i) \o <<x>> \o SubSeq(s, i + 1, Len(s))

\* list.remove(x)
RemoveFirst(s, x) ==
  IF x \in Range(s)
  THEN SubSeq(s, 1, IndexOf(s, x) - 1) \o SubSeq(s, IndexOf(s, x) + 1, Len(s))
  ELSE s

\* ------------------------------------------------------------- graph model
is_road_closed(loc1, loc2) ==
  <<loc1, loc2>> \in closed_roads \/ <<loc2, loc1>> \in closed_roads

\* d.get(k1) when k1 is a key, else d.get(k2) when k2 is a key, else default
Lookup(v1, v2, default) ==
  IF v1 # Inf THEN v1 ELSE IF v2 # Inf THEN v2 ELSE default

get_distance(loc1, loc2) ==
  IF is_road_closed(loc1, loc2) THEN Inf
  ELSE Lookup(DISTANCES(loc1, loc2), DISTANCES(loc2, loc1), Inf)

\* the intermediate locations find_detour accepts, in LOCATIONS order
DetourVias(from_loc, to_loc) ==
  SelectSeq(LOCATIONS, LAMBDA via :
    /\ via # from_loc /\ via # to_loc
    /\ ~is_road_closed(from_loc, via) /\ ~is_road_closed(via, to_loc)
    /\ get_distance(from_loc, via) # Inf /\ get_distance(via, to_loc) # Inf)

\* find_detour, lines 35-42: the detour over the first accepted intermediate
\* location; <<path, distance>>, path <<>> for None
DetourThrough(from_loc, vias, to_loc) ==
  IF vias # <<>>
  THEN << <<from_loc, vias[1], to_loc>>,
          get_distance(from_loc, vias[1]) + get_distance(vias[1], to_loc) >>
  ELSE << <<>>, Inf >>

find_detour(from_loc, to_loc) ==
  IF ~is_road_closed(from_loc, to_loc)
  THEN << <<from_loc, to_loc>>, get_distance(from_loc, to_loc) >>
  ELSE DetourThrough(from_loc, DetourVias(from_loc, to_loc), to_loc)

\* calculate_segment_path, lines 46-56, from the direct distance on; the
\* detour, (None, inf) without one
DirectOrDetour(direct_distance, from_loc, to_loc) ==
  LET detour_or_none(d) == IF d[1] # <<>> THEN d ELSE << <<>>, Inf >> IN
  IF direct_distance # Inf THEN << <<from_loc, to_loc>>, direct_distance >>
  ELSE detour_or_none(find_detour(from_loc, to_loc))

calculate_segment_path(from_loc, to_loc) ==
  DirectOrDetour(get_distance(from_loc, to_loc), from_loc, to_loc)

\* dist = get_distance(a, b); if dist == inf: _, dist = find_detour(a, b): the
\* distance calculate_segment_path returns (find_detour returns inf with None)
ResolvedDistance(a, b) == calculate_segment_path(a, b)[2]

\* inf + x = inf
Plus(a, b) == IF a >= Inf \/ b >= Inf THEN Inf ELSE a + b

RECURSIVE calculate_total_distance(_)
calculate_total_distance(route) ==
  IF Len(route) <= 1 THEN 0
  ELSE Plus(ResolvedDistance(route[1], route[2]), calculate_total_distance(Tail(route)))

\* config.check_constraints is not part of the sources at hand; this is the
\* Constraint Set's `respects`: for every constraint whose two locations both
\* appear, the first index of `before` is smaller than that of `after'.
Constraints == { <<W, S>>, <<DC, H>> }

check_constraints(route) ==
  \A c \in Constraints :
    (c[1] \in Range(route) /\ c[2] \in Range(route))
      => IndexOf(route, c[1]) < IndexOf(route, c[2])

\* ------------------------------------------------------- package sequencer
Visit(loc) == [location |-> loc, action |-> "visit", package_id |-> 0]
Pickup(loc, id) == [location |-> loc, action |-> "pickup", package_id |-> id]
Deliver(loc, id) == [location |-> loc, action |-> "deliver", package_id |-> id]

\* ids of the waiting packages whose pickup is loc, in packages_to_handle order
PickupsAt(st, loc) ==
  SelectSeq([i \in 1..Len(packages) |-> i],
            LAMBDA id : packages[id].pickup = loc /\ st.status[id] = "waiting")

\* lines 267-269 and 290-292: the location is visited once
VisitAt(st, loc) ==
  IF loc \notin st.visited
  THEN [st EXCEPT !.ar = Append(@, Visit(loc)), !.visited = @ \cup {loc}]
  ELSE st

\* lines 272-277 and 295-300: the carried package is delivered at its delivery
DeliverAt(st, loc) ==
  IF st.carrying # 0 /\ packages[st.carrying].delivery = loc
  THEN [st EXCEPT !.ar = Append(@, Deliver(loc, st.carrying)),
                  !.status[st.carrying] = "delivered",
                  !.carrying = 0]
  ELSE st

\* lines 280-287 and 303-311: with empty hands, the first of the packages
\* waiting at loc is picked up
PickupAt(st, loc) ==
  LET first(ps) ==
        IF st.carrying = 0 /\ ps # <<>>
        THEN [st EXCEPT !.ar = Append(@, Pickup(loc, ps[1])),
                        !.status[ps[1]] = "picked_up",
                        !.carrying = ps[1]]
        ELSE st
  IN first(PickupsAt(st, loc))

\* create_action_route, lines 267-287 and 290-311: what the walk does on
\* reaching loc (visit once, deliver before pickup, one pickup)
AtLocation(st, loc) == PickupAt(DeliverAt(VisitAt(st, loc), loc), loc)

RECURSIVE AtLocations(_, _)
AtLocations(st, locs) ==
  IF locs = <<>> THEN st ELSE AtLocations(AtLocation(st, Head(locs)), Tail(locs))

\* the intermediate locations of the detour walked from current_loc to next_loc
DetourLocs(current_loc, next_loc) ==
  LET inner(p) == IF Len(p) > 2 THEN SubSeq(p, 2, Len(p) - 1) ELSE <<>> IN
  IF is_road_closed(current_loc, next_loc)
  THEN inner(calculate_segment_path(current_loc, next_loc)[1])
  ELSE <<>>

\* create_action_route, the loop of lines 256-313 from position i on
RECURSIVE WalkRoute(_, _, _)
WalkRoute(st, route, i) ==
  IF i > Len(route) THEN st
  ELSE WalkRoute(
         AtLocation(AtLocations(st, DetourLocs(route[i - 1], route[i])), route[i]),
         route, i + 1)

\* visits appended on the way from current_loc to target (lines 327-335, 342-350)
TailVisits(current_loc, target) ==
  LET along(p) ==
        IF p # <<>>
        THEN [k \in 1..(Len(p) - 2) |-> Visit(p[k + 1])] \o <<Visit(target)>>
        ELSE <<>>
  IN IF current_loc = target THEN <<>>
     ELSE along(calculate_segment_path(current_loc, target)[1])

\* create_action_route, lines 322-354: the packages left after the walk
\* lines 326-354: the steps that pick up and deliver one waiting package
FetchAndDeliver(current_loc, pkg, id) ==
  TailVisits(current_loc, pkg.pickup) \o <<Pickup(pkg.pickup, id)>>
    \o TailVisits(pkg.pickup, pkg.delivery) \o <<Deliver(pkg.delivery, id)>>

RECURSIVE HandleUnhandled(_, _, _)
HandleUnhandled(st, current_loc, ids) ==
  IF ids = <<>> THEN st
  ELSE IF st.status[Head(ids)] = "waiting"
  THEN HandleUnhandled(
         [st EXCEPT !.ar = @ \o FetchAndDeliver(current_loc, packages[Head(ids)], Head(ids)),
                    !.status[Head(ids)] = "delivered"],
         packages[Head(ids)].delivery, Tail(ids))
  ELSE HandleUnhandled(st, current_loc, Tail(ids))

\* lines 316-354: the packages the walk left undelivered are handled from the
\* last location of the action route on
FinishPackages(st1) ==
  HandleUnhandled(st1, Last(st1.ar).location,
                  SelectSeq([i \in 1..Len(packages) |-> i],
                            LAMBDA id : st1.status[id] # "delivered"))

\* lines 240-354: the sequencer's variables when it returns; status is the
\* status column of packages_to_handle
SequencerRun(route) ==
  FinishPackages(
    WalkRoute([ar |-> <<Visit(route[1])>>, visited |-> {route[1]}, carrying |-> 0,
               status |-> [i \in 1..Len(packages) |-> "waiting"]],
              route, 2))

create_action_route(route) == SequencerRun(route).ar

\* a sequencer whose packages_to_handle holds the session's own package
\* records, so that its status updates reach the session (the mutation
\* C16_InputsUnchanged is tested against)
SessionPackagesShared(pkgs, status) ==
  [i \in 1..Len(pkgs) |-> [pkgs[i] EXCEPT !.status = status[i]]]

\* lines 243-247: packages_to_handle is built of new records, one per package;
\* the statuses written at lines 276-353 (`status') stay in it, and the
\* session's list is after the call what it was before
SessionPackages(pkgs, status) == pkgs

\* the locations of an action route, consecutive repetitions merged
RECURSIVE LocRoute(_)
LocRoute(ar) ==
  LET append_new(rest, loc) ==
        IF rest # <<>> /\ Last(rest) = loc THEN rest ELSE Append(rest, loc)
  IN IF ar = <<>> THEN <<>>
     ELSE append_new(LocRoute(SubSeq(ar, 1, Len(ar) - 1)), Last(ar).location)

\* solve_tsp_improved, lines 542-558: the path through consecutive locations
\* with every detour spliced in and its length; ok is FALSE when a step has no
\* path at all
RECURSIVE FullPath(_)
FullPath(loc_route) ==
  LET join(seg, rest) ==
        \* one segment put in front of the path built so far
        IF seg[1] = <<>> \/ ~rest.ok THEN [ok |-> FALSE, path |-> <<>>, dist |-> Inf]
        ELSE [ok |-> TRUE,
              path |-> IF rest.path = <<>> THEN seg[1] ELSE seg[1] \o Tail(rest.path),
              dist |-> Plus(seg[2], rest.dist)]
  IN IF Len(loc_route) <= 1 THEN [ok |-> TRUE, path |-> <<>>, dist |-> 0]
     ELSE join(calculate_segment_path(loc_route[1], loc_route[2]),
               FullPath(Tail(loc_route)))

\* routing.validate_optimal_route
RECURSIVE PackageScan(_, _, _)
PackageScan(route, carrying, handled) ==
  \* <<ok, handled ids>> of the pickup/deliver scan of lines 1042-1053
  IF route = <<>> THEN <<TRUE, handled>>
  ELSE LET a == Head(route) IN
       IF a.action = "pickup"
       THEN IF carrying # 0 THEN <<FALSE, handled>>
            ELSE PackageScan(Tail(route), a.package_id, handled \cup {a.package_id})
       ELSE IF a.action = "deliver"
       THEN IF carrying # a.package_id THEN <<FALSE, handled>>
            ELSE PackageScan(Tail(route), 0, handled)
       ELSE PackageScan(Tail(route), carrying, handled)

PathConstraintsOk(path) ==
  /\ (W \in Range(path) /\ S \in Range(path)) => ~(IndexOf(path, W) > IndexOf(path, S))
  /\ (DC \in Range(path) /\ H \in Range(path)) => ~(IndexOf(path, DC) > IndexOf(path, H))

validate_optimal_route(route, path, pkgs) ==
  LET \* lines 1042-1058: the scan never carries two packages nor delivers
      \* another one than the carried, and it picks up every package
      complete(scan) == scan[1] /\ Cardinality(scan[2]) = Len(pkgs)
      \* lines 1076-1082
      exists(seg) == seg[1] # <<>> /\ seg[2] # Inf
  IN /\ route # <<>> /\ path # <<>>
     /\ complete(PackageScan(route, 0, {}))
     /\ PathConstraintsOk(path)
     /\ \A i \in 1..(Len(path) - 1) :
          exists(calculate_segment_path(path[i], path[i + 1]))

\* ----------------------------------------------------- candidate generator
\* the position of the first smallest value (a strict `<' scan)
ArgMinIndex(value) ==
  CHOOSE i \in 1..Len(value) :
    /\ \A j \in 1..Len(value) : value[i] <= value[j]
    /\ \A j \in 1..(i - 1) : value[j] > value[i]

\* the element of s whose value is the first smallest one; value[k] is the
\* value of s[k]
ArgMinFirst(s, value) == s[ArgMinIndex(value)]

\* the routes with their lengths
Measured(routes) ==
  [k \in 1..Len(routes) |-> <<routes[k], calculate_total_distance(routes[k])>>]

\* best = None; best_distance = bound; for route: if distance < best_distance:
\* the first of the shortest routes below bound, <<>> for None
ShortestBelow(measured, bound) ==
  IF \A k \in 1..Len(measured) : ~(measured[k][2] < bound) THEN <<>>
  ELSE ArgMinFirst(measured, [k \in 1..Len(measured) |-> measured[k][2]])[1]

\* [loc for loc in locations if loc != start]
Others(locs, start) == SelectSeq(locs, LAMBDA loc : loc # start)

\* the resolved distance from current to each of locs
DistancesFrom(current, locs) ==
  [k \in 1..Len(locs) |-> ResolvedDistance(current, locs[k])]

\* nearest_neighbor_route, lines 122-140: one turn of the while loop, from the
\* distances to the remaining locations on
RECURSIVE NearestFrom(_, _)
NearestFrom(route, remaining) ==
  LET take(dists, i) ==
        IF dists[i] = Inf THEN route
        ELSE NearestFrom(Append(route, remaining[i]), RemoveFirst(remaining, remaining[i]))
      pick(dists) == take(dists, ArgMinIndex(dists))
  IN IF remaining = <<>> THEN route
     ELSE pick(DistancesFrom(Last(route), remaining))

nearest_neighbor_route(start, locs) == NearestFrom(<<start>>, Others(locs, start))

\* insertion_route, lines 150-159: the first of the farthest reachable
\* locations, "" for None
Farthest(start, remaining) ==
  LET of(dists) ==
        IF \A k \in 1..Len(dists) : dists[k] = Inf THEN ""
        ELSE remaining[CHOOSE k \in 1..Len(dists) :
               /\ dists[k] # Inf
               /\ \A j \in 1..Len(dists) : dists[j] # Inf => dists[j] <= dists[k]
               /\ \A j \in 1..(k - 1) : dists[j] # Inf => dists[j] < dists[k]]
  IN of(DistancesFrom(start, remaining))

\* lines 173-193: loc put between route[i] and route[i + 1] (1-based)
InsertionOption(route, loc, i) ==
  LET increase(current_dist, dist1, dist2) ==
        IF current_dist = Inf \/ dist1 = Inf \/ dist2 = Inf THEN Inf
        ELSE dist1 + dist2 - current_dist
  IN <<loc, i, increase(ResolvedDistance(route[i], route[i + 1]),
                        ResolvedDistance(route[i], loc),
                        ResolvedDistance(loc, route[i + 1]))>>

\* the insertions <<loc, position, increase>> the loop of lines 172-198 scans,
\* in scan order
InsertionOptions(route, remaining) ==
  SelectSeq([k \in 1..(Len(remaining) * (Len(route) - 1)) |->
               InsertionOption(route, remaining[((k - 1) \div (Len(route) - 1)) + 1],
                               ((k - 1) % (Len(route) - 1)) + 1)],
            LAMBDA o : o[3] # Inf)

RECURSIVE InsertRemaining(_, _)
InsertRemaining(route, remaining) ==
  LET insert(best) ==
        InsertRemaining(InsertAt(route, best[2], best[1]), RemoveFirst(remaining, best[1]))
      from(opts) ==
        IF opts = <<>> THEN route
        ELSE insert(ArgMinFirst(opts, [k \in 1..Len(opts) |-> opts[k][3]]))
  IN IF remaining = <<>> THEN route
     ELSE from(InsertionOptions(route, remaining))

\* lines 161-164, then the insertions
InsertionLoop(start, remaining, farthest) ==
  InsertRemaining(IF farthest # "" THEN <<start, farthest, start>> ELSE <<start>>,
                  IF farthest # "" THEN RemoveFirst(remaining, farthest) ELSE remaining)

insertion_route(start, locs) ==
  InsertionLoop(start, Others(locs, start), Farthest(start, Others(locs, start)))

\* ---- mst_approximation: networkx Graph, Kruskal's tree, depth-first preorder
\* lines 214-220 for the pair at positions i < j of all_locs
MstEdge(all_locs, i, j) ==
  <<all_locs[i], all_locs[j],
    IF i < j THEN ResolvedDistance(all_locs[i], all_locs[j]) ELSE Inf>>

\* the edges <<u, v, weight>> in the order lines 214-220 add them
MstGraphEdges(all_locs) ==
  SelectSeq([k \in 1..(Len(all_locs) * Len(all_locs)) |->
               MstEdge(all_locs, ((k - 1) \div Len(all_locs)) + 1,
                       ((k - 1) % Len(all_locs)) + 1)],
            LAMBDA e : e[3] # Inf)

\* the nodes of a graph in the order its edges first name them
RECURSIVE NodeOrder(_, _)
NodeOrder(edges, acc) ==
  IF edges = <<>> THEN acc
  ELSE LET e == Head(edges)
           a1 == IF e[1] \in Range(acc) THEN acc ELSE Append(acc, e[1])
           a2 == IF e[2] \in Range(a1) THEN a1 ELSE Append(a1, e[2]) IN
       NodeOrder(Tail(edges), a2)

\* adjacency of node, in the order the edges were added
RECURSIVE Adjacency(_, _)
Adjacency(edges, node) ==
  IF edges = <<>> THEN <<>>
  ELSE LET e == Head(edges)
           rest == Adjacency(Tail(edges), node) IN
       IF e[1] = node THEN <<e[2]>> \o rest
       ELSE IF e[2] = node THEN <<e[1]>> \o rest
       ELSE rest

EdgeWeight(edges, u, v) ==
  LET e == CHOOSE x \in Range(edges) :
             (x[1] = u /\ x[2] = v) \/ (x[1] = v /\ x[2] = u) IN e[3]

\* Graph.edges: node by node, each edge once
RECURSIVE EdgeView(_, _, _)
EdgeView(edges, nodes, seen) ==
  IF nodes = <<>> THEN <<>>
  ELSE LET n == Head(nodes)
           nbrs == SelectSeq(Adjacency(edges, n), LAMBDA m : m \notin seen) IN
       [k \in 1..Len(nbrs) |-> <<n, nbrs[k], EdgeWeight(edges, n, nbrs[k])>>]
         \o EdgeView(edges, Tail(nodes), seen \cup {n})

\* sorted(edges, key=weight): stable
RECURSIVE SortByWeight(_)
SortByWeight(edges) ==
  IF edges = <<>> THEN <<>>
  ELSE LET rest == SortByWeight(SubSeq(edges, 1, Len(edges) - 1))
           e == Last(edges)
           before == SelectSeq(rest, LAMBDA x : x[3] <= e[3])
           after == SelectSeq(rest, LAMBDA x : x[3] > e[3]) IN
       before \o <<e>> \o after

\* Kruskal: an edge is kept when its ends lie in different subtrees
RECURSIVE Kruskal(_, _, _)
Kruskal(sorted, comp, acc) ==
  IF sorted = <<>> THEN acc
  ELSE LET e == Head(sorted) IN
       IF comp[e[1]] # comp[e[2]]
       THEN Kruskal(Tail(sorted),
                    [x \in DOMAIN comp |-> IF comp[x] = comp[e[2]] THEN comp[e[1]] ELSE comp[x]],
                    Append(acc, e))
       ELSE Kruskal(Tail(sorted), comp, acc)

\* nodes reachable from the nodes of `frontier' over the edges
RECURSIVE Reachable(_, _)
Reachable(edges, frontier) ==
  LET next == frontier \cup {e[2] : e \in {x \in Range(edges) : x[1] \in frontier}}
                       \cup {e[1] : e \in {x \in Range(edges) : x[2] \in frontier}} IN
  IF next = frontier THEN frontier ELSE Reachable(edges, next)

\* dfs_preorder_nodes: neighbours in adjacency order
RECURSIVE DfsVisit(_, _, _)
RECURSIVE DfsNeighbours(_, _, _)
DfsVisit(tree, node, order) ==
  DfsNeighbours(tree, Adjacency(tree, node), Append(order, node))
DfsNeighbours(tree, nbrs, order) ==
  IF nbrs = <<>> THEN order
  ELSE IF Head(nbrs) \in Range(order) THEN DfsNeighbours(tree, Tail(nbrs), order)
  ELSE DfsNeighbours(tree, Tail(nbrs), DfsVisit(tree, Head(nbrs), order))

\* mst_approximation: [err, route]; err when networkx raises (is_connected on a
\* graph without nodes, a traversal from a start that is no node of the tree),
\* route <<>> for None
\* lines 222-236 on the graph of the edges
MstTraversal(start, all_locs, edges) ==
  LET \* lines 233-236
      route_of(dfs_path) ==
        IF Range(dfs_path) # Range(all_locs) THEN [err |-> FALSE, route |-> <<>>]
        ELSE [err |-> FALSE, route |-> dfs_path]
      \* lines 223-236
      traverse(nodes) ==
        IF Reachable(edges, {nodes[1]}) # Range(nodes) THEN [err |-> FALSE, route |-> <<>>]
        ELSE IF start \notin Range(nodes) THEN [err |-> TRUE, route |-> <<>>]
        ELSE route_of(DfsVisit(Kruskal(SortByWeight(EdgeView(edges, nodes, {})),
                                       [x \in Range(nodes) |-> x], <<>>),
                               start, <<>>))
  IN IF edges = <<>> THEN [err |-> TRUE, route |-> <<>>]
     ELSE traverse(NodeOrder(edges, <<>>))

mst_approximation(start, locs) ==
  MstTraversal(start, <<start>> \o Others(locs, start),
               MstGraphEdges(<<start>> \o Others(locs, start)))

\* ---- brute force, lines 446-481
RECURSIVE PermutationsOf(_)
PermutationsOf(s) ==
  \* itertools.permutations: in lexicographic order of positions
  IF Len(s) <= 1 THEN <<s>>
  ELSE LET withHead(i) ==
             LET rest == PermutationsOf(SubSeq(s, 1, i - 1) \o SubSeq(s, i + 1, Len(s)))
             IN [k \in 1..Len(rest) |-> <<s[i]>> \o rest[k]]
           RECURSIVE cat(_)
           cat(i) == IF i > Len(s) THEN <<>> ELSE withHead(i) \o cat(i + 1)
       IN cat(1)

\* max_perms is None up to 6 locations and 1000 above
MaxPermsAbove == 6
MaxPerms == 1000
MaxBruteForceSize == 8

BruteForce(start, locs) ==
  \* the best permutation, <<>> for None
  LET \* lines 452-458: the permutations tried before the search stops
      tried(perms) ==
        IF Len(locs) > MaxPermsAbove /\ Len(perms) > MaxPerms
        THEN SubSeq(perms, 1, MaxPerms) ELSE perms
  IN IF Len(locs) > MaxBruteForceSize THEN <<>>
     ELSE ShortestBelow(
            Measured(SelectSeq(tried(PermutationsOf(locs)),
                               LAMBDA perm : perm[1] = start /\ check_constraints(perm))),
            Inf)

\* ----------------------------------------------------- local search (2-opt)
\* s with positions a..b (1-based, inclusive) reversed
ReverseSlice(s, a, b) ==
  SubSeq(s, 1, a - 1) \o Reverse(SubSeq(s, a, b)) \o SubSeq(s, b + 1, Len(s))

\* moves that may reverse a slice beginning at the first element, i in
\* range(0, len - 2) (the mutation C26_LocalSearchPermutes is tested against)
TwoOptMovesFromStart(loc_route) ==
  LET n == Len(loc_route)
      all == [k \in 1..(n * n) |-> <<((k - 1) \div n) + 1, ((k - 1) % n) + 1>>]
      ij == SelectSeq(all, LAMBDA q : 1 <= q[1] /\ q[1] <= n - 2 /\ q[1] < q[2] /\ q[2] <= n - 1)
  IN [k \in 1..Len(ij) |-> ReverseSlice(loc_route, ij[k][1], ij[k][2])]

\* the routes one pass of apply_two_opt tries, in loop order: Python's
\* i in range(1, len - 2), j in range(i + 1, len - 1)
TwoOptMoves(loc_route) ==
  LET n == Len(loc_route)
      all == [k \in 1..(n * n) |-> <<((k - 1) \div n) + 1, ((k - 1) % n) + 1>>]
      ij == SelectSeq(all, LAMBDA q : 2 <= q[1] /\ q[1] <= n - 2 /\ q[1] < q[2] /\ q[2] <= n - 1)
  IN [k \in 1..Len(ij) |-> ReverseSlice(loc_route, ij[k][1], ij[k][2])]

\* a pass that does not test the moves against the ordering rules (the
\* mutation C20_LocalSearchNeverWorsens is tested against)
BestMoveUnchecked(moves, best_distance) == ShortestBelow(Measured(moves), best_distance)

\* one pass of a local search over `moves': the first of the shortest allowed
\* moves below best_distance, <<>> when no move improves
BestMove(moves, best_distance) ==
  ShortestBelow(Measured(SelectSeq(moves, LAMBDA r : check_constraints(r))),
                best_distance)

MaxIterations2Opt == 100

RECURSIVE TwoOptLoop(_, _)
TwoOptLoop(best_route, iteration) ==
  LET \* lines 42-43: the next pass starts from the improved route
      step(m) == IF m = <<>> THEN best_route ELSE TwoOptLoop(m, iteration + 1)
  IN IF iteration >= MaxIterations2Opt THEN best_route
     ELSE step(BestMove(TwoOptMoves(best_route), calculate_total_distance(best_route)))

apply_two_opt(route) == TwoOptLoop(route, 0)

\* a loop that runs one more pass after the pass that found no improvement
\* (the mutation C21_PlanningTerminates is tested against)
RECURSIVE TwoOptTraceNoStop(_, _)
TwoOptTraceNoStop(loc_route, iteration) ==
  LET next(m) == IF m = <<>> THEN <<loc_route>> ELSE TwoOptTraceNoStop(m, iteration + 1)
  IN IF iteration >= MaxIterations2Opt THEN <<>>
     ELSE <<loc_route>>
            \o next(BestMove(TwoOptMoves(loc_route), calculate_total_distance(loc_route)))

\* lines 23-43: loc_route at the start of every pass the while loop of
\* apply_two_opt runs from `iteration' on; its length is the number of passes
RECURSIVE TwoOptTrace(_, _)
TwoOptTrace(loc_route, iteration) ==
  LET next(m) == IF m = <<>> THEN <<>> ELSE TwoOptTrace(m, iteration + 1)
  IN IF iteration >= MaxIterations2Opt THEN <<>>
     ELSE <<loc_route>>
            \o next(BestMove(TwoOptMoves(loc_route), calculate_total_distance(loc_route)))

\* ----------------------------------------------------- local search (3-opt)
Min(a, b) == IF a < b THEN a ELSE b

\* new_route[j:k+1] + new_route[i:j] written over new_route[i:k+1] (0-based i, j, k)
ExchangeSlices(s, i, j, k) ==
  SubSeq(s, 1, i) \o SubSeq(s, j + 1, k + 1) \o SubSeq(s, i + 1, j) \o SubSeq(s, k + 2, Len(s))

ThreeOptMove(s, i, j, k, swap_type) ==
  CASE swap_type = 0 -> ReverseSlice(s, i + 1, j + 1)
    [] swap_type = 1 -> ReverseSlice(s, j + 1, k + 1)
    [] swap_type = 2 -> ReverseSlice(s, i + 1, k + 1)
    [] OTHER -> ExchangeSlices(s, i, j, k)

\* the routes one pass of apply_three_opt tries, in loop order (0-based i, j, k)
ThreeOptMoves(loc_route) ==
  LET n == Len(loc_route)
      all == [x \in 1..(8 * 8 * 8 * 4) |->
                << (x - 1) \div 256, ((x - 1) \div 32) % 8, ((x - 1) \div 4) % 8, (x - 1) % 4 >>]
      ok == SelectSeq(all, LAMBDA q :
              /\ 1 <= q[1] /\ q[1] < Min(n - 4, 4)
              /\ 2 <= q[2] /\ q[2] < Min(n - 2, 5)
              /\ 3 <= q[3] /\ q[3] < Min(n - 1, 7)
              /\ q[1] < q[2] /\ q[2] < q[3])
  IN [x \in 1..Len(ok) |-> ThreeOptMove(loc_route, ok[x][1], ok[x][2], ok[x][3], ok[x][4])]

IterationLimit3Opt == 5
MinLength3Opt == 6

RECURSIVE ThreeOptLoop(_, _)
ThreeOptLoop(best_route, iterations) ==
  LET \* lines 108-109: the next pass starts from the improved route
      step(m) == IF m = <<>> THEN best_route ELSE ThreeOptLoop(m, iterations + 1)
  IN IF iterations >= IterationLimit3Opt THEN best_route
     ELSE step(BestMove(ThreeOptMoves(best_route), calculate_total_distance(best_route)))

apply_three_opt(route) ==
  IF Len(route) < MinLength3Opt THEN route ELSE ThreeOptLoop(route, 0)

\* lines 57-109: loc_route at the start of every pass the while loop of
\* apply_three_opt runs from `iterations' on; no pass for a route shorter than 6
RECURSIVE ThreeOptTrace(_, _)
ThreeOptTrace(loc_route, iterations) ==
  LET next(m) == IF m = <<>> THEN <<>> ELSE ThreeOptTrace(m, iterations + 1)
  IN IF Len(loc_route) < MinLength3Opt \/ iterations >= IterationLimit3Opt THEN <<>>
     ELSE <<loc_route>>
            \o next(BestMove(ThreeOptMoves(loc_route), calculate_total_distance(loc_route)))

\* ------------------------------------------------- networkx shortest paths
\* all simple paths that extend path to `target' over the nodes; two nodes are
\* joined when the road is open (fallback_route's graph) or, with `weighted',
\* when get_distance is finite (strategic_package_handling's graph)
RECURSIVE ExtendPaths(_, _, _, _)
ExtendPaths(path, target, nodes, weighted) ==
  IF Last(path) = target THEN {path}
  ELSE UNION { ExtendPaths(Append(path, n), target, nodes, weighted) :
               n \in {m \in nodes \ Range(path) :
                        IF weighted THEN get_distance(Last(path), m) # Inf
                        ELSE ~is_road_closed(Last(path), m)} }

LocIndex(loc) == CHOOSE i \in 1..Len(LOCATIONS) : LOCATIONS[i] = loc

RECURSIVE PathKey(_)
PathKey(path) ==
  IF path = <<>> THEN 0
  ELSE PathKey(SubSeq(path, 1, Len(path) - 1)) * (Len(LOCATIONS) + 1) + LocIndex(Last(path))

\* networkx does not say which of several equally short paths it returns:
\* `tie' picks the first or the last of them in LOCATIONS order
PickPath(paths) ==
  IF tie = 1
  THEN CHOOSE p \in paths : \A q \in paths : PathKey(p) <= PathKey(q)
  ELSE CHOOSE p \in paths : \A q \in paths : PathKey(p) >= PathKey(q)

RECURSIVE PathWeight(_)
PathWeight(path) ==
  IF Len(path) <= 1 THEN 0 ELSE get_distance(path[1], path[2]) + PathWeight(Tail(path))

\* nx.shortest_path(G, a, b): fewest hops; <<>> for NetworkXNoPath
ShortestPathHops(nodes, a, b) ==
  LET fewest(paths) ==
        IF paths = {} THEN <<>>
        ELSE PickPath({p \in paths : \A q \in paths : Len(p) <= Len(q)})
  IN fewest(ExtendPaths(<<a>>, b, nodes, FALSE))

\* nx.shortest_path(G, a, b, weight='weight'); <<>> for NetworkXNoPath
ShortestPathWeighted(nodes, a, b) ==
  LET lightest(paths) ==
        IF paths = {} THEN <<>>
        ELSE PickPath({p \in paths : \A q \in paths : PathWeight(p) <= PathWeight(q)})
  IN lightest(ExtendPaths(<<a>>, b, nodes, TRUE))

\* ------------------------------------------- strategic_package_handling
\* list.index(x, from): first position >= from (1-based), 0 for ValueError
IndexFrom(s, x, from) ==
  IF \E i \in from..Len(s) : s[i] = x
  THEN CHOOSE i \in from..Len(s) : s[i] = x /\ \A j \in from..(i - 1) : s[j] # x
  ELSE 0

\* lines 221-255 for the packages picked up at position i (1-based)
RECURSIVE PkgOptPackages(_, _, _)
\* lines 230-251, from the shortest path on
PkgOptShortcut(r, i, pkgs, delivery_idx, shortest_path) ==
  LET \* test_route[i:delivery_idx+1] = shortest_path (i, delivery_idx 1-based)
      test_route == SubSeq(r.route, 1, i - 1) \o shortest_path
                      \o SubSeq(r.route, delivery_idx + 1, Len(r.route))
  IN IF /\ shortest_path # <<>>
        /\ Len(shortest_path) < delivery_idx - i + 1
        /\ calculate_total_distance(shortest_path)
             < calculate_total_distance(SubSeq(r.route, i, delivery_idx))
        /\ check_constraints(test_route)
     THEN PkgOptPackages([r EXCEPT !.route = test_route, !.improved = TRUE], i, pkgs)
     ELSE PkgOptPackages(r, i, pkgs)

\* lines 226-251, from the position of the delivery location on
PkgOptDelivery(r, i, pkg, pkgs, delivery_idx) ==
  IF delivery_idx > i + 1
  THEN PkgOptShortcut(r, i, pkgs, delivery_idx,
                      ShortestPathWeighted(Locs, r.route[i], pkg.delivery))
  ELSE PkgOptPackages(r, i, pkgs)

PkgOptPackages(r, i, pkgs) ==
  IF pkgs = <<>> THEN r
  ELSE PkgOptDelivery(r, i, Head(pkgs), Tail(pkgs),
                      IndexFrom(r.route, Head(pkgs).delivery, i + 1))

\* the loop of line 215 over positions i..n (1-based): n is fixed when the
\* loop starts, the route may shrink under it (IndexError -> err)
RECURSIVE PkgOptPositions(_, _, _, _)
PkgOptPositions(r, i, n, pkgs) ==
  IF i > n THEN r
  ELSE IF i > Len(r.route) THEN [r EXCEPT !.err = TRUE]
  ELSE PkgOptPositions(
         PkgOptPackages(r, i, SelectSeq(pkgs, LAMBDA p : p.pickup = r.route[i])),
         i + 1, n, pkgs)

MaxIterationsPkgOpt == 3

RECURSIVE PkgOptLoop(_, _, _)
PkgOptLoop(route, current_iteration, pkgs) ==
  LET \* lines 210-212 after one turn of the while loop
      again(r) ==
        IF r.err THEN [err |-> TRUE, route |-> r.route]
        ELSE IF r.improved THEN PkgOptLoop(r.route, current_iteration + 1, pkgs)
        ELSE [err |-> FALSE, route |-> r.route]
  IN IF current_iteration >= MaxIterationsPkgOpt THEN [err |-> FALSE, route |-> route]
     ELSE again(PkgOptPositions([route |-> route, improved |-> FALSE, err |-> FALSE],
                                1, Len(route) - 1, pkgs))

\* strategic_package_handling: [err, route]; err when the function raises
strategic_package_handling(route, pkgs) ==
  IF Len(route) <= 1 THEN [err |-> FALSE, route |-> route]
  ELSE PkgOptLoop(route, 0, pkgs)

\* lines 209-255: one pass of the while loop over optimized_route
PkgOptPass(optimized_route, pkgs) ==
  PkgOptPositions([route |-> optimized_route, improved |-> FALSE, err |-> FALSE],
                  1, Len(optimized_route) - 1, pkgs)

\* lines 200-255: optimized_route at the start of every pass the while loop of
\* strategic_package_handling runs from `current_iteration' on
RECURSIVE PkgOptTrace(_, _, _)
PkgOptTrace(optimized_route, current_iteration, pkgs) ==
  LET next(r) == IF r.err \/ ~r.improved THEN <<>>
                 ELSE PkgOptTrace(r.route, current_iteration + 1, pkgs)
  IN IF Len(optimized_route) <= 1 \/ current_iteration >= MaxIterationsPkgOpt THEN <<>>
     ELSE <<optimized_route>> \o next(PkgOptPass(optimized_route, pkgs))

\* ---------------------------------------------------------- fallback_route
\* lines 603-636: extend the sequence by a shortest open path to `target';
\* err when networkx raises NodeNotFound (an end that is no node of the graph)
AddLeg(r, target, nodes) ==
  LET extend(path) == IF path # <<>> THEN [r EXCEPT !.seq = @ \o Tail(path)] ELSE r IN
  IF r.err THEN r
  ELSE IF Last(r.seq) \notin nodes \/ target \notin nodes THEN [r EXCEPT !.err = TRUE]
  ELSE extend(ShortestPathHops(nodes, Last(r.seq), target))

AddLegTo(r, target, nodes) ==
  IF r.err \/ target \in Range(r.seq) THEN r ELSE AddLeg(r, target, nodes)

\* lines 642-663: the first position (Python index 1 .. len - 1) where loc can
\* be inserted, 0 when there is none
InsertPosition(seq, loc) ==
  LET fits(i) ==
        LET test_seq == InsertAt(seq, i, loc) IN
        /\ check_constraints(test_seq)
        /\ ~is_road_closed(test_seq[i], loc)
        /\ ~is_road_closed(loc, test_seq[i + 2]) IN
  IF \E i \in 1..(Len(seq) - 1) : fits(i)
  THEN CHOOSE i \in 1..(Len(seq) - 1) : fits(i) /\ \A j \in 1..(i - 1) : ~fits(j)
  ELSE 0

RECURSIVE InsertMissing(_, _)
InsertMissing(seq, locs) ==
  LET \* lines 660-662: the location goes in at the position found, if any
      found(pos) ==
        IF pos = 0 THEN InsertMissing(seq, Tail(locs))
        ELSE InsertMissing(InsertAt(seq, pos, Head(locs)), Tail(locs))
  IN IF locs = <<>> THEN seq
     ELSE IF Head(locs) \in Range(seq) THEN InsertMissing(seq, Tail(locs))
     ELSE found(InsertPosition(seq, Head(locs)))

\* a seeding that puts Shop in front of Warehouse (the mutation
\* C22_SeededOrderRespectsRules is tested against)
SeededOrderShopFirst(start, locs) ==
  <<start>> \o SelectSeq(<<S, W, DC, H>>, LAMBDA l : l \in locs /\ l # start)
            \o SelectSeq(LOCATIONS, LAMBDA l : l \in locs \ {start, W, DC, S, H})

\* start, then Warehouse, Distribution Center, Shop, Home, then the rest (at
\* most Central Hub for the locations of config.LOCATIONS, so that the order in
\* which Python walks the remaining set does not matter)
SeededOrder(start, locs) ==
  <<start>> \o SelectSeq(<<W, DC, S, H>>, LAMBDA l : l \in locs /\ l # start)
            \o SelectSeq(LOCATIONS, LAMBDA l : l \in locs \ {start, W, DC, S, H})

RECURSIVE FiniteSegmentSum(_)
FiniteSegmentSum(path) ==
  \* lines 748-754: a segment without a path counts nothing
  LET finite_or_zero(d) == IF d # Inf THEN d ELSE 0 IN
  IF Len(path) <= 1 THEN 0
  ELSE finite_or_zero(calculate_segment_path(path[1], path[2])[2])
         + FiniteSegmentSum(Tail(path))

\* lines 632-636: back to the start
ReturnLeg(r, start, nodes) ==
  IF r.err \/ Last(r.seq) = start THEN r ELSE AddLeg(r, start, nodes)

\* lines 700-757
FallbackResult(location_sequence) ==
  [err |-> FALSE,
   action_route |-> [i \in 1..Len(location_sequence) |-> Visit(location_sequence[i])],
   route_path |-> location_sequence,
   total_distance |-> FiniteSegmentSum(location_sequence)]

\* a builder without the final re-ordering of lines 670-702 (the mutation
\* C24_FallbackRespectsRules is tested against)
FallbackFromUnordered(r, start, locs) ==
  IF r.err
  THEN [err |-> TRUE, action_route |-> <<>>, route_path |-> <<>>, total_distance |-> 0]
  ELSE FallbackResult(InsertMissing(r.seq, locs))

\* lines 638-757
FallbackFrom(r, start, locs) ==
  LET \* lines 670-702: the sequence is re-ordered when it breaks a constraint
      reordered(seq) ==
        IF check_constraints(seq) THEN seq ELSE SeededOrder(start, Range(seq))
  IN IF r.err
     THEN [err |-> TRUE, action_route |-> <<>>, route_path |-> <<>>, total_distance |-> 0]
     ELSE FallbackResult(reordered(InsertMissing(r.seq, locs)))

\* fallback_route: [err, action_route, route_path, total_distance]; lines
\* 603-628 are the legs to Warehouse, Distribution Center, Shop and Home
fallback_route(start, locs, pkgs) ==
  FallbackFrom(
    ReturnLeg(AddLegTo(AddLegTo(AddLegTo(AddLegTo([err |-> FALSE, seq |-> <<start>>],
                                                  W, Range(locs)),
                                         DC, Range(locs)),
                                S, Range(locs)),
                       H, Range(locs)),
              start, Range(locs)),
    start, locs)

\* ------------------------------------------------------ solve_tsp_improved
\* candidate generation without the constraint test of lines 389, 396, 403, 439
\* and 466 (the mutation C19_CandidatesRespectConstraints is tested against)
RouteCandidatesUnfiltered(start, locs) ==
  LET keep(route) == IF route # <<>> THEN <<route>> ELSE <<>>
  IN keep(nearest_neighbor_route(start, locs))
       \o keep(insertion_route(start, locs))
       \o keep(mst_approximation(start, locs).route)
       \o keep(SeededOrder(start, Range(locs)))
       \o keep(BruteForce(start, locs))

\* lines 386-481: the candidate routes, in the order they are appended
RouteCandidates(start, locs) ==
  LET keep(route) == IF route # <<>> /\ check_constraints(route) THEN <<route>> ELSE <<>>
  IN keep(nearest_neighbor_route(start, locs))
       \o keep(insertion_route(start, locs))
       \o keep(mst_approximation(start, locs).route)
       \o keep(SeededOrder(start, Range(locs)))
       \o keep(BruteForce(start, locs))

\* lines 486-510: the improved routes of one candidate
ImprovedOf(route, locs, pkgs) ==
  LET keep(r) == IF r # <<>> /\ check_constraints(r) THEN <<r>> ELSE <<>> IN
  IF Len(route) < Len(locs) THEN <<>>
  ELSE keep(apply_two_opt(route)) \o keep(apply_three_opt(route))
         \o keep(strategic_package_handling(route, pkgs).route)

RECURSIVE ImprovedCandidates(_, _, _)
ImprovedCandidates(cands, locs, pkgs) ==
  IF cands = <<>> THEN <<>>
  ELSE ImprovedOf(Head(cands), locs, pkgs) \o ImprovedCandidates(Tail(cands), locs, pkgs)

\* lines 512-523: the first of the shortest improved routes, <<>> for None
BestRoute(improved) == ShortestBelow(Measured(improved), Inf)

Failed == [err |-> TRUE, action_route |-> <<>>, route_path |-> <<>>, total_distance |-> 0,
           via |-> "raise"]

\* lines 542-569: the action route with its full path is returned when it
\* validates
Sequenced(ar, full, pkgs, fallback) ==
  IF ~full.ok THEN fallback
  ELSE IF full.path # <<>> /\ validate_optimal_route(ar, full.path, pkgs)
  THEN [err |-> FALSE, action_route |-> ar, route_path |-> full.path,
        total_distance |-> full.dist, via |-> "candidate"]
  ELSE fallback

\* lines 535-539
SequenceBest(ar, pkgs, fallback) == Sequenced(ar, FullPath(LocRoute(ar)), pkgs, fallback)

\* lines 525-532
FromBest(best_route, pkgs, fallback) ==
  IF best_route = <<>> THEN fallback
  ELSE SequenceBest(create_action_route(best_route), pkgs, fallback)

\* lines 484-569; Failed when networkx raised in mst_approximation or
\* strategic_package_handling raised on a candidate
FromCandidates(cands, start, locs, pkgs) ==
  LET \* lines 558 and 569: what is returned of fallback_route
      as_fallback(fb) ==
        IF fb.err THEN Failed
        ELSE [err |-> FALSE, action_route |-> fb.action_route,
              route_path |-> fb.route_path,
              total_distance |-> fb.total_distance, via |-> "fallback"]
  IN IF mst_approximation(start, locs).err THEN Failed
     ELSE IF \E i \in 1..Len(cands) :
               Len(cands[i]) >= Len(locs) /\ strategic_package_handling(cands[i], pkgs).err
     THEN Failed
     ELSE FromBest(BestRoute(ImprovedCandidates(cands, locs, pkgs)), pkgs,
                   as_fallback(fallback_route(start, locs, pkgs)))

\* the status column of packages_to_handle after the one call of
\* create_action_route (line 532); all waiting when the call is not reached
SequencerStatus(best_route, pkgs) ==
  IF best_route = <<>> THEN [i \in 1..Len(pkgs) |-> "waiting"]
  ELSE SequencerRun(best_route).status

StatusAfterCandidates(cands, start, locs, pkgs) ==
  IF \/ mst_approximation(start, locs).err
     \/ \E i \in 1..Len(cands) :
          Len(cands[i]) >= Len(locs) /\ strategic_package_handling(cands[i], pkgs).err
  THEN [i \in 1..Len(pkgs) |-> "waiting"]
  ELSE SequencerStatus(BestRoute(ImprovedCandidates(cands, locs, pkgs)), pkgs)

\* solve_tsp_improved: [err, action_route, route_path, total_distance, via];
\* err when an exception leaves the function
solve_tsp_improved(start, locs, pkgs) ==
  FromCandidates(RouteCandidates(start, locs), start, locs, pkgs)

\* --------------------------------------------------------------- solve_tsp
\* lines 805-832: TRUE when the package check marks the route invalid
PackagesMishandled(ar, pkgs) ==
  LET incomplete(scan) == ~scan[1] \/ Cardinality(scan[2]) < Len(pkgs) IN
  pkgs # <<>> /\ incomplete(PackageScan(ar, 0, {}))

\* lines 784-836: TRUE when the solution is replaced by the fallback route
InvalidPath(r, pkgs) ==
  \/ \E i \in 1..(Len(r.route_path) - 1) : is_road_closed(r.route_path[i], r.route_path[i + 1])
  \/ r.total_distance < UnrealisticBelow \/ r.total_distance = Inf
  \/ ~check_constraints(r.route_path)
  \/ PackagesMishandled(r.action_route, pkgs)

\* lines 845-860: the missing locations put into the path
RECURSIVE AddMissing(_, _)
AddMissing(temp_path, missing) ==
  IF missing = <<>> THEN temp_path
  ELSE LET loc == Head(missing) IN
       IF loc = S /\ W \in Range(temp_path)
       THEN AddMissing(InsertAt(temp_path, IndexOf(temp_path, W), loc), Tail(missing))
       ELSE IF loc = H /\ DC \in Range(temp_path)
       THEN AddMissing(InsertAt(temp_path, IndexOf(temp_path, DC), loc), Tail(missing))
       ELSE AddMissing(Append(temp_path, loc), Tail(missing))

\* lines 867-877: the actions of the old route, location by location of the path
RECURSIVE RebuildActions(_, _)
RebuildActions(path, ar) ==
  IF path = <<>> THEN <<>>
  ELSE LET loc_actions == SelectSeq(ar, LAMBDA a : a.location = Head(path)) IN
       (IF loc_actions # <<>> THEN loc_actions ELSE <<Visit(Head(path))>>)
         \o RebuildActions(Tail(path), ar)

\* calculate_route_distance(route)[1]
RECURSIVE calculate_route_distance(_)
calculate_route_distance(route) ==
  IF Len(route) <= 1 THEN 0
  ELSE Plus(IF is_road_closed(route[1], route[2])
            THEN find_detour(route[1], route[2])[2]
            ELSE calculate_segment_path(route[1], route[2])[2],
            calculate_route_distance(Tail(route)))

\* lines 862-884
Patched(r, temp_path) ==
  LET \* lines 881-883: the recalculated distance is taken when it is plausible
      plausible(old, recalculated) ==
        IF recalculated # Inf /\ recalculated >= UnrealisticBelow
        THEN recalculated ELSE old
  IN IF check_constraints(temp_path)
     THEN [r EXCEPT !.route_path = temp_path,
                    !.action_route = RebuildActions(temp_path, r.action_route),
                    !.total_distance = plausible(@, calculate_route_distance(temp_path))]
     ELSE r

\* lines 838-884
PatchMissing(r, locs) ==
  IF r.route_path # <<>> /\ Range(r.route_path) # Range(locs)
  THEN Patched(r, AddMissing(r.route_path,
                             SelectSeq(locs, LAMBDA l : l \notin Range(r.route_path))))
  ELSE r

\* DISTANCES.get((a, b), DISTANCES.get((b, a), 300))
BaseDistance(a, b) == Lookup(DISTANCES(a, b), DISTANCES(b, a), DefaultSegment)

RECURSIVE BaseLength(_)
BaseLength(path) ==
  IF Len(path) <= 1 THEN 0 ELSE BaseDistance(path[1], path[2]) + BaseLength(Tail(path))

MinimalPath == <<W, DC, S, H>>

\* next(p for p in packages if ...): index of the first such package, 0 for None
FirstPackage(pkgs, pickup, deliveries) ==
  LET P(p) == p.pickup = pickup /\ p.delivery \in deliveries IN
  IF \E i \in 1..Len(pkgs) : P(pkgs[i])
  THEN CHOOSE i \in 1..Len(pkgs) : P(pkgs[i]) /\ \A j \in 1..(i - 1) : ~P(pkgs[j])
  ELSE 0

\* a sequencer of the remaining packages that forgets them (the mutation
\* C6_PlannerHandlesAll is tested against)
PickupDeliverNone(pkgs) == <<>>

RECURSIVE PickupDeliverAll(_)
PickupDeliverAll(pkgs) ==
  IF pkgs = <<>> THEN <<>>
  ELSE <<Pickup(Head(pkgs).pickup, Head(pkgs).id), Deliver(Head(pkgs).delivery, Head(pkgs).id)>>
         \o PickupDeliverAll(Tail(pkgs))

\* a minimal route that reaches Shop and Home before the Distribution Center
\* (the mutation C2_Precedence is tested against)
MinimalRouteHomeFirst(pkgs) ==
  [action_route |-> <<Visit(W), Visit(S), Visit(H), Visit(DC)>> \o PickupDeliverAll(pkgs),
   route_path |-> <<W, S, H, DC>>,
   total_distance |-> BaseLength(<<W, S, H, DC>>)]

\* lines 891-937, the minimal route of the final check.  Line 928 is read as
\* ([p for p in packages if p not in [warehouse_to_shop, dc_to_home]]
\*    if warehouse_to_shop and dc_to_home else packages)
MinimalRoute(pkgs) ==
  LET w2s == FirstPackage(pkgs, W, {S})
      dc2h == FirstPackage(pkgs, DC, {H})
      remaining_packages == IF w2s # 0 /\ dc2h # 0
                            THEN SelectSeq(pkgs, LAMBDA p : p.id \notin {pkgs[w2s].id, pkgs[dc2h].id})
                            ELSE pkgs
  IN [action_route |->
        <<Visit(W)>> \o (IF w2s # 0 THEN <<Pickup(W, pkgs[w2s].id)>> ELSE <<>>)
          \o <<Visit(DC)>> \o (IF dc2h # 0 THEN <<Pickup(DC, pkgs[dc2h].id)>> ELSE <<>>)
          \o <<Visit(S)>> \o (IF w2s # 0 THEN <<Deliver(S, pkgs[w2s].id)>> ELSE <<>>)
          \o <<Visit(H)>> \o (IF dc2h # 0 THEN <<Deliver(H, pkgs[dc2h].id)>> ELSE <<>>)
          \o PickupDeliverAll(remaining_packages),
      route_path |-> MinimalPath,
      total_distance |-> BaseLength(MinimalPath)]

\* lines 941-988, the route built when an exception was caught
ExceptionRoute(pkgs) ==
  LET wp == FirstPackage(pkgs, W, Locs)
      dp == FirstPackage(pkgs, DC, Locs)
      a1 == <<Visit(W)>>
              \o (IF wp # 0 THEN <<Pickup(W, pkgs[wp].id), Deliver(pkgs[wp].delivery, pkgs[wp].id)>>
                  ELSE <<>>)
              \o <<Visit(DC)>>
              \o (IF dp # 0 THEN <<Pickup(DC, pkgs[dp].id), Deliver(pkgs[dp].delivery, pkgs[dp].id)>>
                  ELSE <<>>)
      a2 == IF S \in {a1[i].location : i \in 1..Len(a1)} THEN a1 ELSE Append(a1, Visit(S))
      a3 == IF H \in {a2[i].location : i \in 1..Len(a2)} THEN a2 ELSE Append(a2, Visit(H))
      others == SelectSeq(pkgs, LAMBDA p : (wp = 0 \/ p # pkgs[wp]) /\ (dp = 0 \/ p # pkgs[dp]))
  IN [action_route |-> IF pkgs = <<>> THEN <<Visit(W)>> ELSE a3 \o PickupDeliverAll(others),
      route_path |-> MinimalPath,
      total_distance |-> BaseLength(MinimalPath)]

Max(a, b) == IF a > b THEN a ELSE b

\* min(d for d in DISTANCES.values() if d > 0), half units
MinDistance == 4

\* lines 990-1016
SanityDistance(ar, total, locs) ==
  IF total < MinReasonable
  THEN LET recalculated_distance == BaseLength(LocRoute(ar)) IN
       IF recalculated_distance >= MinReasonable THEN recalculated_distance
       ELSE Max(Max(total, MinDistance * (Len(locs) - 1)), MinReasonable)
  ELSE total

AsResult(f) ==
  [action_route |-> f.action_route, route_path |-> f.route_path,
   total_distance |-> f.total_distance]

\* lines 990-1021
Sane(r, branch_name, locs) ==
  [action_route |-> r.action_route,
   route_path |-> r.route_path,
   total_distance |-> SanityDistance(r.action_route, r.total_distance, locs),
   branch |-> branch_name]

\* a final check without the handler of line 941: an exception leaves
\* solve_tsp (the mutation C15_AlwaysReturnsResult is tested against)
FinalCheckUncaught(r, via, replaced, raised, locs, pkgs) ==
  IF raised
  THEN [action_route |-> <<>>, route_path |-> <<>>, total_distance |-> 0, branch |-> "raise"]
  ELSE IF Len(r.route_path) < Len(locs)
            \/ r.total_distance < UnrealisticBelow \/ r.total_distance = Inf
  THEN Sane(MinimalRoute(pkgs), "minimal", locs)
  ELSE Sane(r, IF replaced \/ via = "fallback" THEN "fallback" ELSE "candidate", locs)

\* lines 886-988: r is the patched solution, `replaced' tells that the
\* fallback route took the place of the planner's, `raised' that an exception
\* reached the handler of line 941
FinalCheck(r, via, replaced, raised, locs, pkgs) ==
  IF raised THEN Sane(ExceptionRoute(pkgs), "exception", locs)
  ELSE IF Len(r.route_path) < Len(locs)
            \/ r.total_distance < UnrealisticBelow \/ r.total_distance = Inf
  THEN Sane(MinimalRoute(pkgs), "minimal", locs)
  ELSE Sane(r, IF replaced \/ via = "fallback" THEN "fallback" ELSE "candidate", locs)

\* lines 834-988
Replace(r0, fb, replaced, locs, pkgs) ==
  FinalCheck(PatchMissing(IF replaced THEN AsResult(fb) ELSE AsResult(r0), locs),
             r0.via, replaced, r0.err \/ (replaced /\ fb.err), locs, pkgs)

\* lines 784-988
Validate(r0, fb, missing, locs, pkgs) ==
  Replace(r0, fb,
          missing \/ InvalidPath(IF missing THEN AsResult(fb) ELSE AsResult(r0), pkgs),
          locs, pkgs)

\* lines 775-988
CheckSolution(r0, fb, locs, pkgs) ==
  Validate(r0, fb, ~(Range(locs) \subseteq Range(r0.route_path)), locs, pkgs)

\* solve_tsp: [action_route, route_path, total_distance, branch]
solve_tsp(start, locs) ==
  CheckSolution(solve_tsp_improved(start, locs, packages),
                fallback_route(start, locs, packages), locs, packages)

\* ------------------------------------------------------------ state machine
\* feature_packages.generate_packages: the valid_combinations the packages
\* after the two fixed ones are drawn from, as <<pickup, delivery>>
valid_combinations ==
  { <<W, DC>>, <<W, H>>, <<DC, W>>, <<DC, S>>, <<S, DC>>, <<S, W>>, <<S, H>>,
    <<H, W>>, <<H, S>> }

Package(i, pickup, delivery) ==
  [id |-> i, pickup |-> pickup, delivery |-> delivery, status |-> "waiting"]

\* generate_packages: package 1 Warehouse -> Shop, package 2 Distribution
\* Center -> Home, then one package per element of extra; ids in list order
generate_packages(extra) ==
  <<Package(1, W, S), Package(2, DC, H)>> \o
  [i \in 1..Len(extra) |-> Package(i + 2, extra[i][1], extra[i][2])]

\* the package lists solve_tsp reads from the session: none (no 'packages'
\* key, routing.py line 765) or a list generate_packages built
PackageLists ==
  {<<>>} \cup
  UNION { { generate_packages(extra) : extra \in [1..n -> valid_combinations] }
          : n \in 0..MaxExtraPackages }

\* every road that ends at loc
RoadsAt(loc) == {r \in Roads : r[1] = loc \/ r[2] = loc}

\* the closed_roads of the session: up to MaxClosed closed roads, and the
\* closures that cut one location off from all the others
ClosureSets ==
  {c \in SUBSET Roads : Cardinality(c) <= MaxClosed} \cup
  {RoadsAt(loc) : loc \in Locs}

NoResult == <<>>

NoArguments == <<>>

\* main.py, lines 38-83: the session keys of the game before any game starts
NoGame ==
  /\ game_active = FALSE
  /\ current_route = <<>>
  /\ current_package = 0
  /\ delivered_packages = <<>>
  /\ total_packages = 0

Init ==
  /\ locations = LOCATIONS
  /\ start_location = W
  /\ closed_roads \in ClosureSets
  /\ packages \in PackageLists
  /\ tie \in {1, 2}
  /\ ordering = <<>>
  /\ pc = "call"
  /\ action_route = NoResult
  /\ route_path = NoResult
  /\ total_distance = 0
  /\ branch = "none"
  /\ segment = NoArguments
  /\ result = NoResult
  /\ NoGame

\* one planning call: game_engine.start_new_game, line 137
SolveTsp ==
  /\ pc = "call"
  /\ \E r \in {solve_tsp(start_location, locations)} :
       /\ action_route' = r.action_route
       /\ route_path' = r.route_path
       /\ total_distance' = r.total_distance
       /\ branch' = r.branch
  /\ packages' = SessionPackages(packages,
                                 StatusAfterCandidates(
                                   RouteCandidates(start_location, locations),
                                   start_location, locations, packages))
  /\ pc' = "returned"
  /\ UNCHANGED <<start_location, locations, closed_roads, tie, ordering, segment, result>>
  /\ UNCHANGED gameVars

Next == SolveTsp

Spec == Init /\ [][Next]_vars

\* the planner is one synchronous call (game_engine.py line 137 runs it to its
\* end): a call that has started is carried out. SolveTsp is the only step
\* that changes pc from "call", and pc = "call" is its only guard, so this is
\* weak fairness of SolveTsp, stated on the change of pc it makes
SpecLive == Init /\ [][Next]_vars /\ WF_pc(pc = "call" /\ pc' = "returned")

\* ---- the package sequencer on its own
\* the orderings solve_tsp_improved hands to create_action_route (line 532):
\* they begin at the start location, hold every location once and passed
\* check_constraints (lines 389-434, 484-504)
Orderings ==
  LET perms == PermutationsOf(LOCATIONS) IN
  { perms[k] : k \in { j \in 1..Len(perms) :
      perms[j][1] = W /\ check_constraints(perms[j]) } }

InitSeq ==
  /\ locations = LOCATIONS
  /\ start_location = W
  /\ closed_roads \in ClosureSets
  /\ packages \in PackageLists
  /\ tie = 1
  /\ ordering \in Orderings
  /\ pc = "call"
  /\ action_route = NoResult
  /\ route_path = NoResult
  /\ total_distance = 0
  /\ branch = "none"
  /\ segment = NoArguments
  /\ result = NoResult
  /\ NoGame

\* one call create_action_route(ordering)
CreateActionRoute ==
  /\ pc = "call"
  /\ action_route' = create_action_route(ordering)
  /\ packages' = SessionPackages(packages, SequencerRun(ordering).status)
  /\ pc' = "sequenced"
  /\ UNCHANGED <<start_location, locations, closed_roads, tie, ordering,
                 route_path, total_distance, branch, segment, result>>
  /\ UNCHANGED gameVars

\* solve_tsp_improved, lines 535-560: the action route is validated together
\* with its full path (a step without any path ends in the fallback route
\* before that)
ValidateOptimalRoute ==
  /\ pc = "sequenced"
  /\ FullPath(LocRoute(action_route)).ok
  /\ route_path' = FullPath(LocRoute(action_route)).path
  /\ result' = validate_optimal_route(action_route,
                                      FullPath(LocRoute(action_route)).path, packages)
  /\ pc' = "validated"
  /\ UNCHANGED <<start_location, locations, closed_roads, packages, tie, ordering,
                 action_route, total_distance, branch, segment>>
  /\ UNCHANGED gameVars

\* solve_tsp_improved, line 505: one call
\* strategic_package_handling(route, packages)
StrategicPackageHandling ==
  /\ pc = "call"
  /\ result' = strategic_package_handling(ordering, packages)
  /\ pc' = "strategic_package_handling"
  /\ UNCHANGED <<start_location, locations, closed_roads, packages, tie, ordering,
                 action_route, route_path, total_distance, branch, segment>>
  /\ UNCHANGED gameVars

NextSeq == CreateActionRoute \/ ValidateOptimalRoute \/ StrategicPackageHandling

SpecSeq == InitSeq /\ [][NextSeq]_vars

\* ---- the helpers on their own: the detour resolver and the local searches
\* the pairs of different locations
Segments == { seg \in Locs \X Locs : seg[1] # seg[2] }

\* the routes solve_tsp_improved hands to apply_two_opt and apply_three_opt
\* (lines 486-497): an ordering of all locations from the start that passed
\* check_constraints, or such an ordering closed to a tour, as insertion_route
\* builds it from [start, farthest, start] (line 162)
LocalSearchInputs == Orderings \cup { Append(o, o[1]) : o \in Orderings }

\* networkx is_connected for the graph of config.LOCATIONS and the road
\* segments that are not in `closed'
is_connected(closed) ==
  Reachable(SelectSeq(ROAD_SEGMENTS, LAMBDA road : road \notin closed), {LOCATIONS[1]}) = Locs

\* the closed_roads that leave all locations connected
ConnectedClosures == { closed \in SUBSET Roads : is_connected(closed) }

\* the lists of locations to visit: config.LOCATIONS or a part of it, in its
\* order
LocationLists ==
  { SelectSeq(LOCATIONS, LAMBDA l : l \in set) : set \in SUBSET Locs \ {{}} }

\* the constraint-based ordering reads nothing but the start location and the
\* locations to visit;
\* find_detour and calculate_segment_path read nothing but their arguments and
\* the closed roads of the session, apply_two_opt and apply_three_opt nothing
\* but their argument and the distances under the closed roads
InitHelpers ==
  /\ packages = <<>>
  /\ tie \in {1, 2}
  /\ pc = "call"
  /\ action_route = NoResult
  /\ route_path = NoResult
  /\ total_distance = 0
  /\ branch = "none"
  /\ result = NoResult
  /\ NoGame
  /\ \/ /\ segment \in Segments
        /\ ordering = <<>>
        /\ closed_roads \in SUBSET Roads
        /\ locations = LOCATIONS /\ start_location = W
     \/ /\ segment = NoArguments
        /\ ordering \in LocalSearchInputs
        /\ closed_roads \in ClosureSets
        /\ locations = LOCATIONS /\ start_location = W
     \/ /\ segment = NoArguments
        /\ ordering = <<>>
        /\ closed_roads = {}
        /\ locations \in LocationLists
        /\ start_location \in Range(locations)
     \/ /\ segment = NoArguments
        /\ ordering = <<>>
        /\ closed_roads \in ConnectedClosures
        /\ locations = LOCATIONS /\ start_location = W

\* one call apply_two_opt(route)
ApplyTwoOpt ==
  /\ pc = "call" /\ ordering # <<>>
  /\ result' = apply_two_opt(ordering)
  /\ pc' = "apply_two_opt"
  /\ UNCHANGED <<start_location, locations, closed_roads, packages, tie, ordering,
                 action_route, route_path, total_distance, branch, segment>>
  /\ UNCHANGED gameVars

\* one call apply_three_opt(route)
ApplyThreeOpt ==
  /\ pc = "call" /\ ordering # <<>>
  /\ result' = apply_three_opt(ordering)
  /\ pc' = "apply_three_opt"
  /\ UNCHANGED <<start_location, locations, closed_roads, packages, tie, ordering,
                 action_route, route_path, total_distance, branch, segment>>
  /\ UNCHANGED gameVars

\* one call find_detour(from_loc, to_loc)
FindDetour ==
  /\ pc = "call" /\ segment # NoArguments
  /\ result' = find_detour(segment[1], segment[2])
  /\ pc' = "find_detour"
  /\ UNCHANGED <<start_location, locations, closed_roads, packages, tie, ordering,
                 action_route, route_path, total_distance, branch, segment>>
  /\ UNCHANGED gameVars

\* one call calculate_segment_path(from_loc, to_loc)
CalculateSegmentPath ==
  /\ pc = "call" /\ segment # NoArguments
  /\ result' = calculate_segment_path(segment[1], segment[2])
  /\ pc' = "calculate_segment_path"
  /\ UNCHANGED <<start_location, locations, closed_roads, packages, tie, ordering,
                 action_route, route_path, total_distance, branch, segment>>
  /\ UNCHANGED gameVars

\* solve_tsp_improved, lines 409-438: the constraint-based ordering is built
ConstraintRoute ==
  /\ pc = "call" /\ segment = NoArguments /\ ordering = <<>>
  /\ result' = SeededOrder(start_location, Range(locations))
  /\ pc' = "constraint_route"
  /\ UNCHANGED <<start_location, locations, closed_roads, packages, tie, ordering,
                 action_route, route_path, total_distance, branch, segment>>
  /\ UNCHANGED gameVars

\* one call fallback_route(start_location, locations, packages)
FallbackRoute ==
  /\ pc = "call" /\ segment = NoArguments /\ ordering = <<>>
  /\ result' = fallback_route(start_location, locations, packages)
  /\ pc' = "fallback_route"
  /\ UNCHANGED <<start_location, locations, closed_roads, packages, tie, ordering,
                 action_route, route_path, total_distance, branch, segment>>
  /\ UNCHANGED gameVars

NextHelpers ==
  \/ FindDetour \/ CalculateSegmentPath \/ ApplyTwoOpt \/ ApplyThreeOpt
  \/ ConstraintRoute \/ FallbackRoute

SpecHelpers == InitHelpers /\ [][NextHelpers]_vars

\* ------------------------------------------------------------------ claims
Returned == pc = "returned"

\* the location projection of the returned action route
ActionLocations == [i \in 1..Len(action_route) |-> action_route[i].location]

PackageById(id) == CHOOSE p \in Range(packages) : p.id = id

\* the packages on board after the first n actions of ar
Carried(ar, n) ==
  { ar[i].package_id : i \in { j \in 1..n :
      /\ ar[j].action = "pickup"
      /\ ~\E k \in (j + 1)..n :
            ar[k].action = "deliver" /\ ar[k].package_id = ar[j].package_id } }

\* C1: the route solve_tsp returns contains every location it was asked to
\* visit, whichever part of the planner produced the route
C1_AllLocationsCovered ==
  Returned => Range(locations) \subseteq Range(ActionLocations)

\* C2: in every returned route the first Warehouse comes before the first
\* Shop, and the first Distribution Center before the first Home
Precedes(route, before, after) ==
  /\ before \in Range(route) /\ after \in Range(route)
  /\ IndexOf(route, before) < IndexOf(route, after)

OrderingRules == { <<W, S>>, <<DC, H>> }

C2_Precedence ==
  Returned =>
    \A c \in OrderingRules :
      {c[1], c[2]} \subseteq Range(ActionLocations) => Precedes(ActionLocations, c[1], c[2])

C2_Witness ==
  /\ Returned /\ branch = "exception" /\ Len(packages) = 3
  /\ \A c \in OrderingRules : Precedes(ActionLocations, c[1], c[2])

\* C3: no returned action sequence picks a package up while another one is
\* still on board (capacity one)
C3_CapacityOne ==
  Returned =>
    \A j \in 1..Len(action_route) :
      action_route[j].action = "pickup" => Carried(action_route, j - 1) = {}

\* C4: every pickup of a returned action sequence is followed by exactly one
\* delivery of that package, at the package's delivery location, with no
\* pickup in between
DeliveriesAfter(ar, i) ==
  { k \in (i + 1)..Len(ar) :
      ar[k].action = "deliver" /\ ar[k].package_id = ar[i].package_id }

C4_PickupThenDeliver ==
  Returned =>
    \A i \in 1..Len(action_route) :
      action_route[i].action = "pickup" =>
        /\ Cardinality(DeliveriesAfter(action_route, i)) = 1
        /\ \A k \in DeliveriesAfter(action_route, i) :
             /\ action_route[k].location = PackageById(action_route[i].package_id).delivery
             /\ \A m \in (i + 1)..(k - 1) : action_route[m].action # "pickup"

\* C5: create_action_route sequences every package it is given: a pickup
\* and, later, a delivery of the package are in its output, also when the
\* package is picked up at a location whose delivery location comes earlier in
\* the ordering
HandlesPackage(ar, p) ==
  \E i \in 1..Len(ar) :
    /\ ar[i] = Pickup(p.pickup, p.id)
    /\ \E k \in (i + 1)..Len(ar) : ar[k] = Deliver(p.delivery, p.id)

C5_SequencerHandlesAll ==
  pc = "sequenced" => \A p \in Range(packages) : HandlesPackage(action_route, p)

\* C6: every route solve_tsp returns holds a pickup and a later delivery of
\* every package of the session, whichever part of the planner built it
C6_PlannerHandlesAll ==
  Returned => \A p \in Range(packages) : HandlesPackage(action_route, p)

C6_Witness ==
  /\ Returned /\ branch = "minimal" /\ Len(packages) = 3
  /\ \A p \in Range(packages) : HandlesPackage(action_route, p)

\* C7: when the closures leave two of the locations to visit without an open
\* path between them, the planner returns no route that contains both
RECURSIVE OpenComponent(_)
OpenComponent(set) ==
  LET next == set \cup {b \in Locs : \E a \in set : a # b /\ ~is_road_closed(a, b)} IN
  IF next = set THEN set ELSE OpenComponent(next)

Connected(a, b) == b \in OpenComponent({a})

C7_DisconnectedFails ==
  Returned =>
    \A a, b \in Range(locations) :
      ~Connected(a, b) => ~({a, b} \subseteq Range(ActionLocations))

\* C8: the distance the planner returns is the sum of the resolved segment
\* distances (open road, or detour) of the path it returns
C8_DistanceIsSegmentSum ==
  Returned => total_distance = calculate_total_distance(route_path)

\* C9: when one of the improved candidates validates after package
\* sequencing, the planner returns a shortest one of those that validate
CandidateRoutes ==
  ImprovedCandidates(RouteCandidates(start_location, locations), locations, packages)

Validates(r) ==
  LET ar == create_action_route(r)
      full == FullPath(LocRoute(ar))
  IN full.ok /\ full.path # <<>> /\ validate_optimal_route(ar, full.path, packages)

C9_BestValidatingCandidate ==
  Returned =>
    LET valid == {r \in Range(CandidateRoutes) : Validates(r)} IN
    valid # {} =>
      \E r \in valid :
        /\ \A q \in valid : calculate_total_distance(r) <= calculate_total_distance(q)
        /\ action_route = create_action_route(r)

\* C10: with no closed road and no package the returned route covers every
\* location and is no longer than any ordering from the start location that
\* respects the ordering rules
C10_OptimalWhenUnconstrained ==
  (Returned /\ closed_roads = {} /\ packages = <<>>) =>
    /\ Range(locations) \subseteq Range(route_path)
    /\ \A r \in Orderings : total_distance <= calculate_total_distance(r)

\* C11: a step of the returned route whose road is closed is walked over an
\* intermediate location with both of its roads open, the returned path holds
\* that location between the two ends of the step, and the returned distance
\* is the sum of the open roads along the returned path (no closed road's base
\* distance is counted)
ClosedSteps(route) ==
  \* the steps over a closed road that a third location with two open roads
  \* can stand in for
  { i \in 1..(Len(route) - 1) :
      /\ is_road_closed(route[i], route[i + 1])
      /\ \E via \in Locs \ {route[i], route[i + 1]} :
            ~is_road_closed(route[i], via) /\ ~is_road_closed(via, route[i + 1]) }

DetouredInPath(path, a, b) ==
  \E k \in 1..(Len(path) - 2) :
    /\ path[k] = a /\ path[k + 2] = b
    /\ ~is_road_closed(a, path[k + 1]) /\ ~is_road_closed(path[k + 1], b)

StepsDetoured(steps, path) ==
  \A i \in ClosedSteps(steps) : DetouredInPath(path, steps[i], steps[i + 1])

C11_ClosedStepDetoured ==
  (Returned /\ ClosedSteps(LocRoute(action_route)) # {}) =>
    /\ StepsDetoured(LocRoute(action_route), route_path)
    /\ total_distance = PathWeight(route_path)

\* C12: for a closed road between a and b, find_detour returns a detour whose
\* length is the smallest a - via - b length over all intermediate locations
\* via with both roads open, not the length over the first such location
TwoHopLengths(a, b) ==
  { get_distance(a, via) + get_distance(via, b) :
      via \in { v \in Locs \ {a, b} : ~is_road_closed(a, v) /\ ~is_road_closed(v, b) } }

C12_ShortestTwoHopDetour ==
  (pc = "find_detour" /\ is_road_closed(segment[1], segment[2])
     /\ TwoHopLengths(segment[1], segment[2]) # {}) =>
    /\ result[1] # <<>>
    /\ \A d \in TwoHopLengths(segment[1], segment[2]) : result[2] <= d

\* C13: find_detour and calculate_segment_path report "no path" (None,
\* infinity) only when no open path joins the two locations: with an open path
\* of any length they return a path over open roads and the sum of its roads
C13_NoPathOnlyWhenUnreachable ==
  ((pc = "find_detour" \/ pc = "calculate_segment_path")
     /\ Connected(segment[1], segment[2])) =>
    /\ result[1] # <<>>
    /\ result[2] = PathWeight(result[1])
    /\ result[2] < Inf

\* C15: whatever the closed roads (also when they cut a location off) and
\* the packages are, what a call of solve_tsp ends with is a returned result
\* (an action route, a path and a finite distance) of one of its branches,
\* never an exception passed on to the caller
Branches == {"candidate", "fallback", "minimal", "exception"}

C15_AlwaysReturnsResult ==
  Returned =>
    /\ branch \in Branches
    /\ action_route # <<>> /\ route_path # <<>>
    /\ total_distance < Inf

C15_Witness ==
  /\ Returned /\ branch = "exception"
  /\ \E loc \in Locs : RoadsAt(loc) \subseteq closed_roads
  /\ action_route # <<>> /\ route_path # <<>>

\* C16: a call of solve_tsp leaves its inputs as they were: the closed roads
\* after the call are those before it, and every package of the session has
\* the pickup, the delivery and the status (waiting) it had before
C16_InputsUnchanged ==
  [][(pc = "call" /\ pc' = "returned") =>
       /\ closed_roads' = closed_roads
       /\ packages' = packages
       /\ \A i \in 1..Len(packages') : packages'[i].status = "waiting"]_vars

\* the sequencer ran on the best route and marked a package delivered in its
\* own dictionary, and the session's package is waiting
C16_Witness ==
  /\ Returned /\ packages # <<>>
  /\ \E i \in 1..Len(packages) :
       /\ StatusAfterCandidates(RouteCandidates(start_location, locations),
                                start_location, locations, packages)[i] = "delivered"
       /\ packages[i].status = "waiting"

\* C17: in every returned route two consecutive locations of the action
\* sequence are joined by an open road or by two open roads over a third
\* location, and no two consecutive locations of the returned path are joined
\* by a closed road only
Joined(a, b) ==
  \/ ~is_road_closed(a, b)
  \/ \E via \in Locs \ {a, b} : ~is_road_closed(a, via) /\ ~is_road_closed(via, b)

RouteJoined(steps) == \A i \in 1..(Len(steps) - 1) : Joined(steps[i], steps[i + 1])

C17_NoClosedRoadInPath ==
  Returned =>
    /\ RouteJoined(LocRoute(action_route))
    /\ \A i \in 1..(Len(route_path) - 1) : ~is_road_closed(route_path[i], route_path[i + 1])

\* C18: validate_optimal_route accepts an action sequence only if every
\* package that is picked up is delivered later in the sequence, and every
\* delivery is of the package carried at that point
C18_ValidatorRequiresDelivery ==
  (pc = "validated" /\ result = TRUE) =>
    /\ \A i \in 1..Len(action_route) :
         action_route[i].action = "pickup" => DeliveriesAfter(action_route, i) # {}
    /\ \A k \in 1..Len(action_route) :
         action_route[k].action = "deliver" =>
           Carried(action_route, k - 1) = {action_route[k].package_id}

\* C19: every ordering handed to the improvement step and every ordering
\* that reaches the choice of the best route satisfies the ordering rules; an
\* ordering a generator built against the rules is not among them, and the
\* best route is one of the orderings that reached the choice
AllRespect(routes) == \A i \in 1..Len(routes) : check_constraints(routes[i])

C19_CandidatesRespectConstraints ==
  Returned =>
    /\ AllRespect(RouteCandidates(start_location, locations))
    /\ AllRespect(CandidateRoutes)
    /\ BestRoute(CandidateRoutes) \in Range(CandidateRoutes) \cup {<<>>}

\* the nearest-neighbour ordering breaks a rule and is dropped, and other
\* orderings reach the choice
C19_Witness ==
  /\ Returned
  /\ nearest_neighbor_route(start_location, locations) # <<>>
  /\ ~check_constraints(nearest_neighbor_route(start_location, locations))
  /\ nearest_neighbor_route(start_location, locations)
       \notin Range(RouteCandidates(start_location, locations))
  /\ CandidateRoutes # <<>>

\* C20: for an ordering that satisfies the ordering rules, under any closed
\* roads, apply_two_opt and apply_three_opt return an ordering that satisfies
\* the rules and is no longer than the input; the result differs from the
\* input only when it is strictly shorter
C20_LocalSearchNeverWorsens ==
  (pc = "apply_two_opt" \/ pc = "apply_three_opt") =>
    /\ check_constraints(result)
    /\ calculate_total_distance(result) <= calculate_total_distance(ordering)
    /\ result # ordering =>
         calculate_total_distance(result) < calculate_total_distance(ordering)

\* a 2-opt run that adopted a move
C20_Witness ==
  /\ pc = "apply_two_opt" /\ check_constraints(ordering)
  /\ result # ordering /\ check_constraints(result)
  /\ calculate_total_distance(result) < calculate_total_distance(ordering)

\* ---- C21
\* every pass of the trace but the last made the route shorter
EachPassShortens(trace) ==
  \A k \in 1..(Len(trace) - 1) :
    calculate_total_distance(trace[k + 1]) < calculate_total_distance(trace[k])

\* the last pass of a local-search trace found no improvement among `moves',
\* or it was the last pass the cap allows
LastPassFails(trace, moves, cap) ==
  trace # <<>> =>
    \/ Len(trace) = cap
    \/ BestMove(moves, calculate_total_distance(Last(trace))) = <<>>

TwoOptBounded(route) ==
  /\ Len(TwoOptTrace(route, 0)) <= 100
  /\ EachPassShortens(TwoOptTrace(route, 0))
  /\ LastPassFails(TwoOptTrace(route, 0), TwoOptMoves(apply_two_opt(route)), 100)

ThreeOptBounded(route) ==
  /\ Len(ThreeOptTrace(route, 0)) <= 5
  /\ EachPassShortens(ThreeOptTrace(route, 0))
  /\ LastPassFails(ThreeOptTrace(route, 0), ThreeOptMoves(apply_three_opt(route)), 5)

\* at most 3 passes; every pass but the last improved and handed its route to
\* the next one; the last one raised, did not improve or was the third
PkgOptBounded(trace, pkgs) ==
  /\ Len(trace) <= 3
  /\ \A k \in 1..(Len(trace) - 1) :
       /\ PkgOptPass(trace[k], pkgs).improved
       /\ PkgOptPass(trace[k], pkgs).route = trace[k + 1]
  /\ trace # <<>> =>
       \/ Len(trace) = 3
       \/ PkgOptPass(Last(trace), pkgs).err
       \/ ~PkgOptPass(Last(trace), pkgs).improved

\* the candidates of the call that reach the improvement stage (line 488)
Improved(cands) == SelectSeq(cands, LAMBDA c : Len(c) >= Len(locations))

LoopsBounded(cands) ==
  \A i \in 1..Len(cands) :
    /\ TwoOptBounded(cands[i])
    /\ ThreeOptBounded(cands[i])
    /\ PkgOptBounded(PkgOptTrace(cands[i], 0, packages), packages)

\* C21: every planning call terminates. In every call the 2-opt loop runs at
\* most 100 passes, the 3-opt loop at most 5 and the package-optimisation loop
\* at most 3, each loop stops at the first pass that finds no improvement, the
\* nearest-neighbour and insertion loops take one location off their
\* remaining list per turn (so their routes hold at most one entry per
\* location, the insertion route one more for the closed loop), and a call
\* that has started always reaches a returned result.
C21_PlanningTerminates ==
  /\ [](pc = "call" =>
         /\ LoopsBounded(Improved(RouteCandidates(start_location, locations)))
         /\ Len(nearest_neighbor_route(start_location, locations)) <= Len(locations)
         /\ Len(insertion_route(start_location, locations)) <= Len(locations) + 1)
  /\ ((pc = "call") ~> Returned)

\* a call has returned whose candidates took a second pass in each of the
\* three loops
C21_Witness ==
  /\ Returned
  /\ \E i \in 1..Len(RouteCandidates(start_location, locations)) :
       Len(TwoOptTrace(RouteCandidates(start_location, locations)[i], 0)) >= 2
  /\ \E i \in 1..Len(RouteCandidates(start_location, locations)) :
       Len(ThreeOptTrace(RouteCandidates(start_location, locations)[i], 0)) >= 2
  /\ \E i \in 1..Len(RouteCandidates(start_location, locations)) :
       Len(PkgOptTrace(RouteCandidates(start_location, locations)[i], 0, packages)) >= 2

\* ---- C22
\* the start location is the `after' side of a rule whose `before' side is to
\* be visited as well
StartAfterSide ==
  \E c \in Constraints : start_location = c[2] /\ c[1] \in Range(locations)

WaitingAt(ar, i, loc) ==
  { p.id : p \in { q \in Range(packages) : q.pickup = loc } }
    \ { ar[k].package_id : k \in { j \in 1..(i - 1) : ar[j].action = "pickup" } }

\* C23: the sequencer applies its rule at each location of the ordering, the
\* start location included. A Deliver at a location comes before any Pickup
\* there; a Pickup is emitted only when nothing is carried, and it is of the
\* waiting package with the lowest id; at the start location, where nothing
\* is carried yet, the waiting package with the lowest id is picked up right
\* after the visit.
C23_RuleAtEveryLocation ==
  pc = "sequenced" =>
    /\ \A i \in 1..Len(action_route) :
         action_route[i].action = "pickup" =>
           /\ Carried(action_route, i - 1) = {}
           /\ \A id \in WaitingAt(action_route, i, action_route[i].location) :
                action_route[i].package_id <= id
           /\ i < Len(action_route) =>
                ~(/\ action_route[i + 1].action = "deliver"
                  /\ action_route[i + 1].location = action_route[i].location)
    /\ WaitingAt(action_route, 1, ordering[1]) # {} =>
         /\ Len(action_route) >= 2
         /\ action_route[2].action = "pickup"
         /\ action_route[2].location = ordering[1]
         /\ \A id \in WaitingAt(action_route, 1, ordering[1]) :
              action_route[2].package_id <= id

\* ---- C24
\* C24: for every set of closed roads that leaves the network connected, the
\* location sequence fallback_route returns for a game (all locations, from
\* Warehouse) respects every ordering rule, also when a leg ran through Shop
\* or Home early, when locations were inserted afterwards and when the
\* circuit was closed back to the start.
C24_FallbackRespectsRules ==
  (/\ pc = "fallback_route"
   /\ start_location = W /\ locations = LOCATIONS
   /\ is_connected(closed_roads)) =>
    /\ ~result.err
    /\ check_constraints(result.route_path)

\* fallback_route has returned for a connected network in which the legs and
\* insertions alone break a rule, so that the sequence was re-ordered
C24_Witness ==
  /\ pc = "fallback_route"
  /\ start_location = W /\ locations = LOCATIONS
  /\ is_connected(closed_roads) /\ closed_roads # {}
  /\ ~result.err
  /\ result.route_path = SeededOrder(W, Locs)

\* ---- C25
\* C25: strategic_package_handling never removes a location: whatever the
\* ordering, the packages and the closed roads, its output holds every
\* location of its input, so that the candidate it contributes to the choice
\* of the best route is still an ordering of all locations to visit.
C25_KeepsEveryLocation ==
  (pc = "strategic_package_handling" /\ ~result.err) =>
    /\ Range(ordering) \subseteq Range(result.route)
    /\ Range(locations) \subseteq Range(result.route)

\* ---- C26
\* how often loc occurs in route
Occurrences(route, loc) == Cardinality({ i \in 1..Len(route) : route[i] = loc })

\* C26: apply_two_opt and apply_three_opt return a permutation of their input:
\* the same locations as often, the same length, the same first element (the
\* start location is never moved) and the same last element.
C26_LocalSearchPermutes ==
  pc \in {"apply_two_opt", "apply_three_opt"} =>
    /\ Len(result) = Len(ordering)
    /\ \A loc \in Locs : Occurrences(result, loc) = Occurrences(ordering, loc)
    /\ result[1] = ordering[1]
    /\ Last(result) = Last(ordering)

\* apply_two_opt has returned a closed tour other than the one it was given
C26_Witness ==
  /\ pc = "apply_two_opt"
  /\ Len(ordering) = 6
  /\ result # ordering

\* ---- road closures of a session (feature_road_closures.py)
\* generate_road_closures is tried with num_closures up to this
MaxNumClosures == 7

\* max_possible_closures: the roads a spanning tree of the network can spare
max_possible_closures == Len(ROAD_SEGMENTS) - (Len(LOCATIONS) - 1)

\* the attempts of generate_road_closures: the roads of a shuffled
\* ROAD_SEGMENTS are closed one after the other, a road that would disconnect
\* the network is put back, and the walk stops at num_closures roads.  The
\* order that begins with the roads of a connected closure set closes exactly
\* that set, and every set an attempt closes leaves the network connected, so
\* the outcomes are the connected closure sets of num_closures roads.
GreedyClosures(num_closures) ==
  { closed \in ConnectedClosures : Cardinality(closed) = num_closures }

\* the preset closures of generate_road_closures
easy_closures ==
  << << <<W, H>> >>, << <<S, H>> >>, << <<W, S>> >> >>

medium_closures ==
  << << <<W, S>>, <<S, H>> >>, << <<W, DC>>, <<S, H>> >>, << <<W, S>>, <<W, H>> >> >>

hard_closures ==
  << << <<W, DC>>, <<S, H>>, <<W, S>> >>,
     << <<W, S>>, <<DC, S>>, <<DC, H>> >>,
     << <<W, H>>, <<S, H>>, <<DC, S>> >> >>

safe_additions == << <<W, H>>, <<S, H>>, <<W, S>> >>

\* a road in the orientation of ROAD_SEGMENTS; <<>> when it is no segment
NormalizeRoad(road) ==
  IF road \in Roads THEN road
  ELSE IF <<road[2], road[1]>> \in Roads THEN <<road[2], road[1]>>
  ELSE <<>>

\* the roads of a list normalised, those that are no segment left out
NormalizeRoads(roads) ==
  SelectSeq([k \in 1..Len(roads) |-> NormalizeRoad(roads[k])], LAMBDA road : road # <<>>)

RECURSIVE AddSafe(_, _, _)
\* safe_additions appended, from the k-th on, until num_closures roads are closed
AddSafe(closures, k, num_closures) ==
  IF k > Len(safe_additions) \/ Len(closures) >= num_closures THEN closures
  ELSE LET road == safe_additions[k]
       IN IF road \in Range(closures) \/ <<road[2], road[1]>> \in Range(closures)
          THEN AddSafe(closures, k + 1, num_closures)
          ELSE AddSafe(closures \o NormalizeRoads(<<road>>), k + 1, num_closures)

\* the preset branch for one choice of preset: the closed_roads it stores, or
\* the session's closed_roads when the presets disconnect the network (the
\* single safe closure is then returned but not stored)
PresetClosures(preset, num_closures, session_closed) ==
  LET limited == SubSeq(NormalizeRoads(preset), 1, Min(num_closures, Len(preset)))
      closures == AddSafe(limited, 1, num_closures)
  IN IF is_connected(Range(closures)) THEN Range(closures) ELSE session_closed

\* the closed_roads the session can hold after generate_road_closures(n).
\* validate_package_delivery is True for a connected network and raises when
\* a package of the session names a location that is no node of the network;
\* every attempt then fails and the preset branch is taken.
generate_road_closures(n, session_closed) ==
  LET num_closures == Min(n, max_possible_closures)
      presets == IF num_closures >= 3 THEN hard_closures
                 ELSE IF num_closures >= 2 THEN medium_closures
                 ELSE easy_closures
  IN GreedyClosures(num_closures) \cup
     { PresetClosures(presets[k], num_closures, session_closed) : k \in 1..Len(presets) }

\* add_random_closure accepts every road, connected or not (the mutation
\* C27_ClosuresKeepNetwork is tested against)
MayCloseAny(closed, road) == TRUE

\* the test of add_random_closure for one available road
MayClose(closed, road) == is_connected(closed \cup {road})

\* the session when the application starts (main.py): no road closed, no game
InitClosures ==
  /\ locations = LOCATIONS
  /\ start_location = W
  /\ closed_roads = {}
  /\ packages = <<>>
  /\ tie = 1
  /\ ordering = <<>>
  /\ pc = "start"
  /\ action_route = NoResult
  /\ route_path = NoResult
  /\ total_distance = 0
  /\ branch = "none"
  /\ segment = NoArguments
  /\ result = NoResult
  /\ NoGame

\* one call generate_road_closures(num_closures = n)
GenerateRoadClosures ==
  /\ \E n \in 0..MaxNumClosures :
       closed_roads' \in generate_road_closures(n, closed_roads)
  /\ pc' = "generate_road_closures"
  /\ UNCHANGED <<start_location, locations, packages, tie, ordering, action_route,
                 route_path, total_distance, branch, segment, result>>
  /\ UNCHANGED gameVars

\* one call add_random_closure() that returns True
AddRandomClosure ==
  /\ \E road \in Roads \ closed_roads :
       /\ MayClose(closed_roads, road)
       /\ closed_roads' = closed_roads \cup {road}
  /\ pc' = "add_random_closure"
  /\ UNCHANGED <<start_location, locations, packages, tie, ordering, action_route,
                 route_path, total_distance, branch, segment, result>>
  /\ UNCHANGED gameVars

\* one call remove_random_closure() that returns True
RemoveRandomClosure ==
  /\ closed_roads # {}
  /\ \E road \in closed_roads : closed_roads' = closed_roads \ {road}
  /\ pc' = "remove_random_closure"
  /\ UNCHANGED <<start_location, locations, packages, tie, ordering, action_route,
                 route_path, total_distance, branch, segment, result>>
  /\ UNCHANGED gameVars

NextClosures == GenerateRoadClosures \/ AddRandomClosure \/ RemoveRandomClosure

SpecClosures == InitClosures /\ [][NextClosures]_vars

\* ---- C27
\* C27: after any sequence of generate_road_closures, add_random_closure and
\* remove_random_closure the network without the closed roads is connected,
\* every closed road is a configured road segment, and at most
\* len(ROAD_SEGMENTS) - (len(LOCATIONS) - 1) roads are closed.
C27_ClosuresKeepNetwork ==
  /\ is_connected(closed_roads)
  /\ closed_roads \subseteq Roads
  /\ Cardinality(closed_roads) <= max_possible_closures

\* add_random_closure has closed the last road the network can spare
C27_Witness ==
  /\ pc = "add_random_closure"
  /\ Cardinality(closed_roads) = max_possible_closures

\* ---- the game loop (game_engine.py, feature_packages.py)
\* a player's route is followed up to this many check-ins, the start included
MaxRoute == 5

\* the keys of config.SCORING_WEIGHTS
SCORING_WEIGHTS ==
  {"Speed Run", "Efficiency Challenge", "Complex Supply Chain",
   "Road Closure Challenge", "Package Delivery"}

\* num_packages and the default of num_road_closures in start_new_game
num_packages == 3
num_road_closures == 1

\* the session after start_new_game: the game is active, the route is the
\* start at Warehouse, nothing is carried or delivered, three packages wait
\* and generate_road_closures(1) has closed the roads
InitGame ==
  /\ game_active = TRUE
  /\ current_route = <<W>>
  /\ current_package = 0
  /\ delivered_packages = <<>>
  /\ packages \in { generate_packages(extra) :
                    extra \in [1..(num_packages - 2) -> valid_combinations] }
  /\ total_packages = Len(packages)
  /\ closed_roads \in generate_road_closures(num_road_closures, {})
  /\ locations = LOCATIONS
  /\ start_location = W
  /\ tie = 1
  /\ ordering = <<>>
  /\ pc = "start_new_game"
  /\ action_route = NoResult
  /\ route_path = NoResult
  /\ total_distance = 0
  /\ branch = "none"
  /\ segment = NoArguments
  /\ result = NoResult

\* the package list with the status of package id set
WithStatus(pkgs, id, status) ==
  [i \in 1..Len(pkgs) |-> IF pkgs[i].id = id THEN [pkgs[i] EXCEPT !.status = status]
                          ELSE pkgs[i]]

\* the package of the session with this id
PackageOf(pkgs, id) == pkgs[CHOOSE i \in 1..Len(pkgs) : pkgs[i].id = id]

\* process_location_checkin takes every road, closed or not (the mutation
\* C29_RejectedCheckinKeepsRoute is tested against)
RoadOpenAlways(route, location) == TRUE

\* the first test of process_location_checkin: the road from the current
\* location is not closed
RoadOpen(route, location) ==
  ~(Len(route) > 0 /\ is_road_closed(Last(route), location))

\* the tests that end the game at a check-in
all_locations_visited(route) == \A loc \in Locs : loc \in Range(route)

all_packages_delivered(delivered, total) == Len(delivered) = total

\* the route as process_location_checkin leaves it before end_game: the start
\* is appended when the player is elsewhere and the road back is open
ClosedRoute(route) ==
  IF route[1] # Last(route) /\ ~is_road_closed(Last(route), route[1])
  THEN Append(route, route[1])
  ELSE route

\* end_game: game_active after the call.  The weights are looked up under
\* "Logistics Challenge" before game_active is cleared; a missing key raises
\* and leaves the game active.
end_game(active) ==
  IF ~active THEN active
  ELSE IF "Logistics Challenge" \in SCORING_WEIGHTS THEN FALSE
  ELSE active

\* one call process_location_checkin(location); pc records how it returned
ProcessLocationCheckin ==
  \E location \in Locs :
    /\ IF ~game_active
         THEN /\ pc' = "refused"
              /\ UNCHANGED <<gameVars, packages>>
       ELSE IF ~RoadOpen(current_route, location)
         THEN /\ pc' = "road_closed"
              /\ UNCHANGED <<gameVars, packages>>
       ELSE IF ~check_constraints(Append(current_route, location))
         THEN /\ pc' = "constraint_violated"
              /\ UNCHANGED <<gameVars, packages>>
       ELSE LET route == Append(current_route, location)
                delivers == /\ current_package # 0
                            /\ PackageOf(packages, current_package).delivery = location
                delivered == IF delivers THEN Append(delivered_packages, current_package)
                             ELSE delivered_packages
                ends == /\ all_locations_visited(route)
                        /\ all_packages_delivered(delivered, total_packages)
            IN /\ Len(current_route) < MaxRoute
               /\ packages' = IF delivers THEN WithStatus(packages, current_package, "delivered")
                              ELSE packages
               /\ delivered_packages' = delivered
               /\ current_package' = IF delivers THEN 0 ELSE current_package
               /\ current_route' = IF ends THEN ClosedRoute(route) ELSE route
               /\ game_active' = IF ends THEN end_game(game_active) ELSE game_active
               /\ pc' = "checked_in"
               /\ UNCHANGED total_packages
    /\ UNCHANGED <<start_location, locations, closed_roads, tie, ordering, action_route,
                   route_path, total_distance, branch, segment, result>>

\* one call feature_packages.pickup_package_by_id(package_id) that returns True
PickupPackageById ==
  \E i \in 1..Len(packages) :
    /\ current_route # <<>>
    /\ current_package = 0
    /\ packages[i].pickup = Last(current_route)
    /\ packages[i].status = "waiting"
    /\ packages' = WithStatus(packages, packages[i].id, "picked_up")
    /\ current_package' = packages[i].id
    /\ pc' = "pickup_package_by_id"
    /\ UNCHANGED <<game_active, current_route, delivered_packages, total_packages>>
    /\ UNCHANGED <<start_location, locations, closed_roads, tie, ordering, action_route,
                   route_path, total_distance, branch, segment, result>>

\* feature_packages.get_available_packages_at_location: the ids of the
\* waiting packages whose pickup is the location
get_available_packages_at_location(pkgs, location) ==
  { pkgs[i].id : i \in { j \in 1..Len(pkgs) : /\ pkgs[j].pickup = location
                                              /\ pkgs[j].status = "waiting" } }

\* one call game_engine.pickup_package(package).  The package is one the
\* callers pass, a package available at the current location; the function
\* itself tests only that the game is active and takes the package whatever
\* is carried.
PickupPackage ==
  \E id \in get_available_packages_at_location(packages, Last(current_route)) :
    /\ game_active
    /\ packages' = WithStatus(packages, id, "picked_up")
    /\ current_package' = id
    /\ pc' = "pickup_package"
    /\ UNCHANGED <<game_active, current_route, delivered_packages, total_packages>>
    /\ UNCHANGED <<start_location, locations, closed_roads, tie, ordering, action_route,
                   route_path, total_distance, branch, segment, result>>

\* one call feature_packages.deliver_package(): the carried package is
\* delivered when the current location is its delivery location, and nothing
\* changes (the call returns False) otherwise
DeliverPackage ==
  /\ IF /\ current_route # <<>>
        /\ current_package # 0
        /\ PackageOf(packages, current_package).delivery = Last(current_route)
       THEN /\ packages' = WithStatus(packages, current_package, "delivered")
            /\ delivered_packages' = Append(delivered_packages, current_package)
            /\ current_package' = 0
       ELSE UNCHANGED <<packages, delivered_packages, current_package>>
  /\ pc' = "deliver_package"
  /\ UNCHANGED <<game_active, current_route, total_packages>>
  /\ UNCHANGED <<start_location, locations, closed_roads, tie, ordering, action_route,
                 route_path, total_distance, branch, segment, result>>

NextGame == ProcessLocationCheckin \/ PickupPackageById \/ PickupPackage \/ DeliverPackage

SpecGame == InitGame /\ [][NextGame]_vars

\* ---- C28
\* the ids of the packages with status picked_up
PickedUp(pkgs) == { pkgs[i].id : i \in { j \in 1..Len(pkgs) : pkgs[j].status = "picked_up" } }

\* a status stays or moves one step along waiting -> picked_up -> delivered
StatusStep(old, new) ==
  \/ new = old
  \/ old = "waiting" /\ new = "picked_up"
  \/ old = "picked_up" /\ new = "delivered"

\* C28: in the game loop, after any sequence of process_location_checkin,
\* pickup_package_by_id, game_engine.pickup_package and deliver_package, at
\* most one package is picked_up and it is the one held in current_package, a
\* status only moves waiting -> picked_up -> delivered, and no package is
\* appended to delivered_packages twice.
C28_SingleCapacity ==
  /\ [](/\ Cardinality(PickedUp(packages)) <= 1
        /\ PickedUp(packages) \subseteq {current_package}
        /\ \A i, j \in 1..Len(delivered_packages) :
             delivered_packages[i] = delivered_packages[j] => i = j)
  /\ [][\A i \in 1..Len(packages) :
          StatusStep(packages[i].status, packages'[i].status)]_vars

\* ---- C29
\* no leg of the route is a closed road
UsesNoClosedRoad(route) ==
  \A i \in 1..(Len(route) - 1) : ~is_road_closed(route[i], route[i + 1])

\* C29: a check-in that would take a closed road from the current location,
\* or that would make the route break an ordering rule, is rejected and leaves
\* current_route, current_package, the package statuses and
\* delivered_packages as they were; so the player's route respects the rules
\* and uses no closed road in every state of a game.
C29_RejectedCheckinKeepsRoute ==
  /\ [][pc' \in {"road_closed", "constraint_violated"} =>
          UNCHANGED <<current_route, current_package, packages, delivered_packages>>]_vars
  /\ [](check_constraints(current_route) /\ UsesNoClosedRoad(current_route))

\* a check-in was rejected for a closed road after the player had moved
C29_Witness ==
  /\ pc = "road_closed"
  /\ Len(current_route) >= 2

\* ---- C30
\* the outcomes of a call of process_location_checkin
CheckinOutcomes == {"checked_in", "road_closed", "constraint_violated", "refused"}

\* every location visited and every package delivered
GameComplete ==
  /\ all_locations_visited(current_route)
  /\ all_packages_delivered(delivered_packages, total_packages)

\* C30: a game ends at a check-in exactly when, after that check-in, every
\* location has been visited and the number of delivered packages equals
\* total_packages; it never ends earlier, and once it has ended every further
\* check-in is refused and changes neither current_route nor a package.
C30_GameEndsWhenComplete ==
  /\ [](pc = "checked_in" => (~game_active <=> GameComplete))
  /\ [](~game_active => GameComplete)
  /\ [][(~game_active /\ pc' \in CheckinOutcomes) =>
          (pc' = "refused" /\ UNCHANGED <<current_route, packages>>)]_vars

====
